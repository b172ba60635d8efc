----------------------------- MODULE BackendProofs -----------------------------
(***************************************************************************)
(* Facts about Backend that the proofs of its components share: what a     *)
(* handler's move does to req, how many handlers a failure can lose, and   *)
(* how the tables Answers and Uses bound the guesses at a code.            *)
(***************************************************************************)
EXTENDS Backend, FiniteSetTheorems, WellFoundedInduction, TLAPS

(* A move of one handler leaves the others alone, and what it becomes is   *)
(* what the move says.  R stands for the requests of the component.        *)
LEMMA BeginChange ==
  ASSUME NEW R, req \in [Handlers -> R \cup {Idle}], NEW h \in Handlers, NEW r,
         Begin(h, r)
  PROVE  /\ req'[h] = r
         /\ \A k \in Handlers \ {h} : req'[k] = req[k]
         /\ r \in R => req' \in [Handlers -> R \cup {Idle}]
         /\ faults' = faults
  BY DEF Begin

LEMMA StepChange ==
  ASSUME NEW R, req \in [Handlers -> R \cup {Idle}], NEW h \in Handlers, NEW pc,
         Step(h, pc)
  PROVE  /\ req'[h] = [req[h] EXCEPT !.pc = pc]
         /\ \A k \in Handlers \ {h} : req'[k] = req[k]
         /\ [req[h] EXCEPT !.pc = pc] \in R => req' \in [Handlers -> R \cup {Idle}]
         /\ faults' = faults
<1>1. req' = [req EXCEPT ![h] = [req[h] EXCEPT !.pc = pc]] BY DEF Step
<1>q. QED BY <1>1 DEF Step

LEMMA DoneChange ==
  ASSUME NEW R, req \in [Handlers -> R \cup {Idle}], NEW h \in Handlers, Done(h)
  PROVE  /\ req'[h] = Idle
         /\ \A k \in Handlers \ {h} : req'[k] = req[k]
         /\ req' \in [Handlers -> R \cup {Idle}]
         /\ faults' = faults
  BY DEF Done

LEMMA FailChange ==
  ASSUME NEW R, req \in [Handlers -> R \cup {Idle}], NEW h \in Handlers,
         faults \in 0..MaxFaults, Fail(h)
  PROVE  /\ req'[h] = Idle
         /\ \A k \in Handlers \ {h} : req'[k] = req[k]
         /\ req' \in [Handlers -> R \cup {Idle}]
         /\ faults' = faults + 1
         /\ faults' \in 0..MaxFaults
  BY BackendAssumption DEF Fail

LEMMA RestartChange ==
  ASSUME NEW R, faults \in 0..MaxFaults, Restart
  PROVE  /\ \A k \in Handlers : req'[k] = Idle
         /\ req' \in [Handlers -> R \cup {Idle}]
         /\ faults' = faults + 1
         /\ faults' \in 0..MaxFaults
  BY BackendAssumption DEF Restart

LEMMA InitialRequests ==
  ASSUME NEW R, BackendInit
  PROVE  /\ req \in [Handlers -> R \cup {Idle}]
         /\ \A k \in Handlers : req[k] = Idle
         /\ faults = 0
         /\ faults \in 0..MaxFaults
  BY BackendAssumption DEF BackendInit

(* A failure that hits every handler adds at most one object for each to   *)
(* the objects that were lost before.                                      *)
LEMMA LostByFailure ==
  ASSUME NEW S, IsFiniteSet(S), NEW T, NEW f,
         T \subseteq S \cup {f[h] : h \in Handlers}
  PROVE  IsFiniteSet(T) /\ Cardinality(T) <= Cardinality(S) + Cardinality(Handlers)
<1> DEFINE I == {f[h] : h \in Handlers}
           g == [h \in Handlers |-> f[h]]
<1>f. IsFiniteSet(Handlers) BY BackendAssumption
<1>1. g \in Surjection(Handlers, I) BY DEF Surjection
<1>2. IsFiniteSet(I) /\ Cardinality(I) <= Cardinality(Handlers)
  <2> HIDE DEF g, I
  <2>q. QED BY <1>1, <1>f, FS_Surjection
<1> HIDE DEF I
<1>3. /\ IsFiniteSet(S \cup I)
      /\ Cardinality(S \cup I) <= Cardinality(S) + Cardinality(I)
  <2>1. /\ IsFiniteSet(S \cup I)
        /\ Cardinality(S \cup I) = Cardinality(S) + Cardinality(I) - Cardinality(S \cap I)
    BY <1>2, FS_Union
  <2>2. IsFiniteSet(S \cap I) BY FS_Intersection
  <2>3. Cardinality(S \cap I) \in Nat BY <2>2, FS_CardinalityType
  <2>4. Cardinality(S) \in Nat /\ Cardinality(I) \in Nat BY <1>2, FS_CardinalityType
  <2>q. QED BY <2>1, <2>3, <2>4
<1>4. T \in SUBSET (S \cup I) BY DEF I
<1>5. IsFiniteSet(T) /\ Cardinality(T) <= Cardinality(S \cup I) BY <1>3, <1>4, FS_Subset
<1>6. /\ Cardinality(S) \in Nat /\ Cardinality(I) \in Nat /\ Cardinality(T) \in Nat
      /\ Cardinality(S \cup I) \in Nat /\ Cardinality(Handlers) \in Nat
  BY <1>2, <1>3, <1>5, <1>f, FS_CardinalityType
<1>q. QED BY <1>2, <1>3, <1>5, <1>6

(* A number of objects lost that is bounded by the failures stays so when  *)
(* objects are found again, and when a failure loses some.                 *)
LEMMA FewerLost ==
  ASSUME NEW S, IsFiniteSet(S), NEW n \in Nat, Cardinality(S) <= n, NEW T \in SUBSET S
  PROVE  IsFiniteSet(T) /\ Cardinality(T) <= n
<1>1. IsFiniteSet(T) /\ Cardinality(T) <= Cardinality(S) BY FS_Subset
<1>2. Cardinality(S) \in Nat /\ Cardinality(T) \in Nat BY <1>1, FS_CardinalityType
<1>q. QED BY <1>1, <1>2

LEMMA MoreLost ==
  ASSUME NEW S, IsFiniteSet(S), NEW n \in Nat, Cardinality(S) <= n * Cardinality(Handlers),
         NEW T, NEW f, T \subseteq S \cup {f[h] : h \in Handlers}
  PROVE  IsFiniteSet(T) /\ Cardinality(T) <= (n + 1) * Cardinality(Handlers)
<1>1. IsFiniteSet(T) /\ Cardinality(T) <= Cardinality(S) + Cardinality(Handlers)
  BY LostByFailure
<1>2. Cardinality(S) \in Nat /\ Cardinality(T) \in Nat /\ Cardinality(Handlers) \in Nat
  BY <1>1, BackendAssumption, FS_CardinalityType
<1>3. \A m \in Nat : (n + 1) * m = n * m + m OBVIOUS
<1>4. \A m \in Nat : n * m \in Nat OBVIOUS
<1> DEFINE m == Cardinality(Handlers)
<1>5. m \in Nat /\ Cardinality(T) <= Cardinality(S) + m /\ Cardinality(S) <= n * m
  BY <1>1, <1>2
<1> HIDE DEF m
<1>6. Cardinality(T) <= (n + 1) * m
  <2> DEFINE p == n * m
  <2>1. p \in Nat /\ (n + 1) * m = p + m /\ Cardinality(S) <= p BY <1>3, <1>4, <1>5
  <2> HIDE DEF p
  <2>q. QED BY <2>1, <1>5, <1>2
<1>q. QED BY <1>1, <1>6 DEF m

(* What a key of Redis is after a while: gone, or the same with less time. *)
LEMMA AgedKeys ==
  ASSUME NEW S, NEW keys, DOMAIN keys = S
  PROVE  /\ Aged(keys) = [k \in S |-> Aged(keys)[k]]
         /\ \A k \in S : \/ Aged(keys)[k] = None
                         \/ /\ keys[k] # None /\ keys[k].left # 1
                            /\ Aged(keys)[k] = [keys[k] EXCEPT !.left = keys[k].left - 1]
  BY DEF Aged

(* Counting handlers.                                                      *)
LEMMA HandlerCount ==
  ASSUME NEW S \in SUBSET Handlers
  PROVE  /\ IsFiniteSet(S)
         /\ Cardinality(S) \in Nat /\ Cardinality(Handlers) \in Nat
         /\ Cardinality(S) <= Cardinality(Handlers)
  BY BackendAssumption, FS_Subset, FS_CardinalityType

LEMMA FewerHandlers ==
  ASSUME NEW S \in SUBSET Handlers, NEW T \in SUBSET S
  PROVE  Cardinality(T) <= Cardinality(S)
  BY HandlerCount, FS_Subset

LEMMA OneMoreHandler ==
  ASSUME NEW S \in SUBSET Handlers, NEW h \in Handlers, h \notin S
  PROVE  Cardinality(S \cup {h}) = Cardinality(S) + 1
  BY HandlerCount, FS_AddElement

LEMMA OneHandlerLess ==
  ASSUME NEW S \in SUBSET Handlers, NEW h \in S
  PROVE  Cardinality(S \ {h}) = Cardinality(S) - 1
  BY HandlerCount, FS_RemoveElement

LEMMA TwoKindsOfHandlers ==
  ASSUME NEW S \in SUBSET Handlers, NEW T \in SUBSET Handlers, S \cap T = {}
  PROVE  Cardinality(S) + Cardinality(T) <= Cardinality(Handlers)
<1>1. IsFiniteSet(S) /\ IsFiniteSet(T) BY HandlerCount
<1>2. Cardinality(S \cup T) = Cardinality(S) + Cardinality(T) - Cardinality(S \cap T)
  BY <1>1, FS_Union
<1>3. Cardinality(S \cap T) = 0 BY FS_EmptySet
<1>4. Cardinality(S \cup T) <= Cardinality(Handlers) BY HandlerCount
<1>5. Cardinality(S) \in Nat /\ Cardinality(T) \in Nat BY HandlerCount
<1>q. QED BY <1>2, <1>3, <1>4, <1>5

(* What handlers choose is no more than they are.                          *)
LEMMA ChosenByHandlers ==
  ASSUME NEW S \in SUBSET Handlers, NEW f
  PROVE  /\ IsFiniteSet({f[h] : h \in S})
         /\ Cardinality({f[h] : h \in S}) <= Cardinality(S)
<1> DEFINE I == {f[h] : h \in S}
           g == [h \in S |-> f[h]]
<1>1. g \in Surjection(S, I) BY DEF Surjection
<1> HIDE DEF g, I
<1>2. IsFiniteSet(I) /\ Cardinality(I) <= Cardinality(S)
  BY <1>1, HandlerCount, FS_Surjection
<1>q. QED BY <1>2 DEF I

-----------------------------------------------------------------------------
(* A set of naturals with 0 and the successor of each of its members has   *)
(* them all: induction, with a set for the predicate.                      *)
LEMMA NatSets ==
  ASSUME NEW S, 0 \in S, \A n \in Nat : n \in S => n + 1 \in S
  PROVE  Nat \subseteq S
<1> DEFINE R == {p \in Nat \X Nat : p[1] < p[2]}
           T == Nat \ S
<1>1. IsWellFoundedOn(R, Nat) BY NatLessThanWellFounded DEF OpToRel
<1>2. SUFFICES ASSUME T # {} PROVE FALSE OBVIOUS
<1>3. PICK x \in T : \A y \in T : ~(<<y, x>> \in R)
  <2>1. T \subseteq Nat OBVIOUS
  <2> HIDE DEF R, T
  <2>q. QED BY <1>1, <1>2, <2>1, WFMin
<1>4. x # 0 /\ x - 1 \in Nat BY <1>3
<1>5. x - 1 \in T BY <1>4, <1>3
<1>6. <<x - 1, x>> \in R BY <1>4
<1>q. QED BY <1>3, <1>5, <1>6

(* f goes from base by step.                                               *)
Follows(f, base, step) == f[0] = base /\ \A n \in Nat : f[n + 1] = step[n][f[n]]

(* Primitive recursion, with a function for what makes the next value.     *)
LEMMA Recursion ==
  ASSUME NEW V, NEW base \in V, NEW step \in [Nat -> [V -> V]]
  PROVE  \E f \in [Nat -> V] : Follows(f, base, step)
<1> DEFINE Upto(n) == {g \in [0..n -> V] :
                        g[0] = base /\ \A i \in 0..(n - 1) : g[i + 1] = step[i][g[i]]}
<1>1. \A n \in Nat : Upto(n) # {}
  <2> DEFINE S == {n \in Nat : Upto(n) # {}}
  <2>1. 0 \in S
    <3>1. [i \in 0..0 |-> base] \in Upto(0) OBVIOUS
    <3>q. QED BY <3>1
  <2>2. ASSUME NEW n \in Nat, n \in S PROVE n + 1 \in S
    <3>1. PICK g \in Upto(n) : TRUE BY <2>2
    <3>2. g[n] \in V /\ step[n][g[n]] \in V BY <3>1
    <3> DEFINE h == [i \in 0..(n + 1) |-> IF i = n + 1 THEN step[n][g[n]] ELSE g[i]]
    <3>3. h \in [0..(n + 1) -> V] BY <3>1, <3>2
    <3>4. h[0] = base BY <3>1
    <3>5. ASSUME NEW i \in 0..n PROVE h[i + 1] = step[i][h[i]]
      <4>1. CASE i = n BY <4>1
      <4>2. CASE i # n
        <5>1. i \in 0..(n - 1) /\ i + 1 \in 0..(n + 1) /\ i + 1 # n + 1 BY <4>2
        <5>2. g[i + 1] = step[i][g[i]] BY <3>1, <5>1
        <5>q. QED BY <5>1, <5>2
      <4>q. QED BY <4>1, <4>2
    <3>6. 0..((n + 1) - 1) = 0..n OBVIOUS
    <3>7. h \in Upto(n + 1) BY <3>3, <3>4, <3>5, <3>6
    <3>q. QED BY <3>7
  <2> HIDE DEF S
  <2>3. Nat \subseteq S BY <2>1, <2>2, NatSets
  <2>q. QED BY <2>3 DEF S
<1>2. \A n \in Nat : \A p, q \in Nat : \A g \in Upto(p), h \in Upto(q) :
        n <= p /\ n <= q => g[n] = h[n]
  <2> DEFINE S == {n \in Nat : \A p, q \in Nat : \A g \in Upto(p), h \in Upto(q) :
                        n <= p /\ n <= q => g[n] = h[n]}
  <2>1. 0 \in S OBVIOUS
  <2>2. ASSUME NEW n \in Nat, n \in S PROVE n + 1 \in S
    <3>1. ASSUME NEW p \in Nat, NEW q \in Nat, NEW g \in Upto(p), NEW h \in Upto(q),
                 n + 1 <= p, n + 1 <= q
          PROVE  g[n + 1] = h[n + 1]
      <4>1. n \in 0..(p - 1) /\ n \in 0..(q - 1) /\ n <= p /\ n <= q BY <3>1
      <4>2. g[n] = h[n] BY <2>2, <4>1
      <4>3. g[n + 1] = step[n][g[n]] /\ h[n + 1] = step[n][h[n]] BY <4>1
      <4>q. QED BY <4>2, <4>3
    <3> HIDE DEF Upto
    <3>q. QED BY <3>1
  <2> HIDE DEF S
  <2>3. Nat \subseteq S BY <2>1, <2>2, NatSets
  <2>q. QED BY <2>3 DEF S
<1> DEFINE best == [n \in Nat |-> CHOOSE g \in Upto(n) : TRUE]
           f == [n \in Nat |-> best[n][n]]
<1>3. \A n \in Nat : best[n] \in Upto(n) BY <1>1
<1>4. f \in [Nat -> V]
  <2>1. ASSUME NEW n \in Nat PROVE best[n][n] \in V
    <3>1. n \in 0..n OBVIOUS
    <3>2. best[n] \in Upto(n) BY <1>3
    <3> HIDE DEF best
    <3>q. QED BY <3>1, <3>2
  <2> HIDE DEF best
  <2>q. QED BY <2>1
<1>5. f[0] = base BY <1>3
<1>6. ASSUME NEW n \in Nat PROVE f[n + 1] = step[n][f[n]]
  <2>1. best[n] \in Upto(n) /\ best[n + 1] \in Upto(n + 1)
    <3>1. n + 1 \in Nat OBVIOUS
    <3> HIDE DEF best, Upto
    <3>q. QED BY <1>3, <3>1
  <2>2. n <= n /\ n <= n + 1 /\ n \in 0..((n + 1) - 1) OBVIOUS
  <2> HIDE DEF best
  <2>3. best[n + 1][n] = best[n][n]
    <3> HIDE DEF Upto
    <3>q. QED BY <1>2, <2>1, <2>2
  <2>4. best[n + 1][n + 1] = step[n][best[n + 1][n]] BY <2>1, <2>2
  <2>q. QED BY <2>3, <2>4
<1>q. QED BY <1>4, <1>5, <1>6 DEF Follows

(* A table of naturals built like Pascal's triangle: an entry is the sum   *)
(* of its neighbours and of what extra says of its column.                 *)
IsTable(T, extra) ==
    \A n, k \in Nat :
        /\ T[n][k] \in Nat
        /\ T[0][k] = 0 /\ T[n][0] = 0
        /\ T[n + 1][k + 1] = T[n][k + 1] + extra[k] + T[n + 1][k]

LEMMA NextRow ==
  ASSUME NEW extra \in [Nat -> Nat], NEW r \in [Nat -> Nat]
  PROVE  \E s \in [Nat -> Nat] :
            s[0] = 0 /\ \A k \in Nat : s[k + 1] = r[k + 1] + extra[k] + s[k]
<1> DEFINE step == [k \in Nat |-> [v \in Nat |-> r[k + 1] + extra[k] + v]]
<1>1. step \in [Nat -> [Nat -> Nat]] OBVIOUS
<1>2. \A k, v \in Nat : step[k][v] = r[k + 1] + extra[k] + v OBVIOUS
<1> HIDE DEF step
<1>3. 0 \in Nat OBVIOUS
<1>4. PICK s \in [Nat -> Nat] : Follows(s, 0, step) BY <1>1, <1>3, Recursion
<1>5. \A k \in Nat : s[k + 1] = r[k + 1] + extra[k] + s[k] BY <1>2, <1>4 DEF Follows
<1>q. QED BY <1>4, <1>5 DEF Follows

LEMMA Tables ==
  ASSUME NEW extra \in [Nat -> Nat]
  PROVE  \E T \in [Nat -> [Nat -> Nat]] : IsTable(T, extra)
<1> DEFINE V == [Nat -> Nat]
           RowFollows(r, s) == s[0] = 0 /\ \A k \in Nat : s[k + 1] = r[k + 1] + extra[k] + s[k]
           next == [r \in V |-> CHOOSE s \in V : RowFollows(r, s)]
           step == [n \in Nat |-> next]
           zero == [k \in Nat |-> 0]
<1>1. \A r \in V : next[r] \in V /\ RowFollows(r, next[r])
  <2> SUFFICES ASSUME NEW r \in V PROVE next[r] \in V /\ RowFollows(r, next[r])
    OBVIOUS
  <2>1. \E s \in V : RowFollows(r, s) BY NextRow
  <2> HIDE DEF RowFollows, V
  <2>q. QED BY <2>1
<1>2. zero \in V OBVIOUS
<1>3. step \in [Nat -> [V -> V]]
  <2> HIDE DEF V, RowFollows
  <2>q. QED BY <1>1
<1>4. \A n \in Nat, r \in V : step[n][r] = next[r]
  <2> HIDE DEF V, next
  <2>q. QED OBVIOUS
<1> HIDE DEF next, step, V, zero
<1>5. PICK T \in [Nat -> V] : Follows(T, zero, step) BY <1>2, <1>3, Recursion
<1>6. ASSUME NEW n \in Nat PROVE RowFollows(T[n], T[n + 1])
  <2> HIDE DEF RowFollows
  <2>1. T[n] \in V BY <1>5
  <2>2. T[n + 1] = next[T[n]] BY <1>4, <1>5, <2>1 DEF Follows
  <2>q. QED BY <1>1, <2>1, <2>2
<1>7. T \in [Nat -> [Nat -> Nat]] BY <1>5 DEF V
<1>8. \A k \in Nat : T[0][k] = 0 BY <1>5 DEF zero, Follows
<1>9. \A n \in Nat : T[n][0] = 0
  <2>1. ASSUME NEW n \in Nat, n # 0 PROVE T[n][0] = 0
    <3>1. n - 1 \in Nat /\ (n - 1) + 1 = n BY <2>1
    <3>2. RowFollows(T[n - 1], T[n]) BY <1>6, <3>1
    <3>q. QED BY <3>2
  <2>q. QED BY <1>8, <2>1
<1>10. \A n, k \in Nat : T[n + 1][k + 1] = T[n][k + 1] + extra[k] + T[n + 1][k] BY <1>6
<1>q. QED BY <1>7, <1>8, <1>9, <1>10 DEF IsTable

(* Whatever is built like that is a table of naturals.                     *)
LEMMA TableIsBuilt ==
  ASSUME NEW extra \in [Nat -> Nat], NEW T,
         \A n, k \in Nat : /\ T[0][k] = 0 /\ T[n][0] = 0
                           /\ T[n + 1][k + 1] = T[n][k + 1] + extra[k] + T[n + 1][k]
  PROVE  IsTable(T, extra)
<1> DEFINE R == {n \in Nat : \A k \in Nat : T[n][k] \in Nat}
<1>z. \A n, k \in Nat : T[0][k] = 0 /\ T[n][0] = 0 OBVIOUS
<1>1. 0 \in R BY <1>z
<1>2. ASSUME NEW n \in Nat, n \in R PROVE n + 1 \in R
  <2> DEFINE C == {k \in Nat : T[n + 1][k] \in Nat}
  <2>1. n + 1 \in Nat OBVIOUS
  <2>2. 0 \in C BY <2>1, <1>z
  <2>3. ASSUME NEW k \in Nat, k \in C PROVE k + 1 \in C
    <3>1. T[n + 1][k + 1] = T[n][k + 1] + extra[k] + T[n + 1][k] OBVIOUS
    <3>2. T[n][k + 1] \in Nat
      <4>1. k + 1 \in Nat OBVIOUS
      <4>q. QED BY <1>2, <4>1, Zenon
    <3>3. extra[k] \in Nat OBVIOUS
    <3>4. T[n + 1][k] \in Nat BY <2>3
    <3>7. \A a, b, c \in Nat : a + b + c \in Nat OBVIOUS
    <3>5. T[n][k + 1] + extra[k] + T[n + 1][k] \in Nat
      BY <3>2, <3>3, <3>4, <3>7, Zenon
    <3>6. T[n + 1][k + 1] \in Nat BY <3>1, <3>5, Zenon
    <3>q. QED BY <3>6
  <2> HIDE DEF C
  <2>4. Nat \subseteq C BY <2>2, <2>3, NatSets
  <2>q. QED BY <2>1, <2>4 DEF C
<1> HIDE DEF R
<1>3. Nat \subseteq R BY <1>1, <1>2, NatSets
<1>4. \A n, k \in Nat : T[n][k] \in Nat BY <1>3 DEF R
<1>q. QED BY <1>4 DEF IsTable

(* A table is what its recursive definition says.                          *)
LEMMA TableEquation ==
  ASSUME NEW extra \in [Nat -> Nat], NEW T \in [Nat -> [Nat -> Nat]], IsTable(T, extra),
         NEW n \in Nat, NEW k \in Nat
  PROVE  /\ n = 0 \/ k = 0 => T[n][k] = 0
         /\ ~(n = 0 \/ k = 0) => T[n][k] = T[n - 1][k] + extra[k - 1] + T[n][k - 1]
<1>1. CASE n = 0 \/ k = 0 BY <1>1 DEF IsTable
<1>2. CASE n # 0 /\ k # 0
  <2>1. PICK m, j \in Nat : n = m + 1 /\ k = j + 1
    <3>1. n - 1 \in Nat /\ k - 1 \in Nat /\ n = (n - 1) + 1 /\ k = (k - 1) + 1 BY <1>2
    <3>q. QED BY <3>1
  <2>2. T[m + 1][j + 1] = T[m][j + 1] + extra[j] + T[m + 1][j] BY <2>1 DEF IsTable
  <2>3. n - 1 = m /\ k - 1 = j BY <2>1
  <2>q. QED BY <1>2, <2>1, <2>2, <2>3
<1>q. QED BY <1>1, <1>2

One == [k \in Nat |-> 1]
OneAtFirst == [k \in Nat |-> IF k = 0 THEN 1 ELSE 0]

LEMMA AnswersIsTable == IsTable(Answers, One)
<1>1. One \in [Nat -> Nat] BY DEF One
<1>2. PICK T \in [Nat -> [Nat -> Nat]] : IsTable(T, One) BY <1>1, Tables
<1>3. ASSUME NEW n \in Nat, NEW k \in Nat
      PROVE  T[n][k] = IF n = 0 \/ k = 0 THEN 0 ELSE T[n - 1][k] + 1 + T[n][k - 1]
  <2>1. /\ n = 0 \/ k = 0 => T[n][k] = 0
        /\ ~(n = 0 \/ k = 0) => T[n][k] = T[n - 1][k] + One[k - 1] + T[n][k - 1]
    BY <1>1, <1>2, TableEquation
  <2>2. k # 0 => One[k - 1] = 1 BY DEF One
  <2>q. QED BY <2>1, <2>2
<1>4. T = [n \in Nat |-> [left \in Nat |->
            IF n = 0 \/ left = 0 THEN 0 ELSE T[n - 1][left] + 1 + T[n][left - 1]]]
  BY <1>2, <1>3
<1>5. Answers = [n \in Nat |-> [left \in Nat |->
            IF n = 0 \/ left = 0 THEN 0 ELSE Answers[n - 1][left] + 1 + Answers[n][left - 1]]]
  BY <1>4, Zenon DEF Answers
<1> HIDE DEF Answers
<1>6. ASSUME NEW n \in Nat, NEW k \in Nat
      PROVE  Answers[n][k] = IF n = 0 \/ k = 0 THEN 0
                             ELSE Answers[n - 1][k] + 1 + Answers[n][k - 1]
  <2>1. Answers[n] = [left \in Nat |->
            IF n = 0 \/ left = 0 THEN 0 ELSE Answers[n - 1][left] + 1 + Answers[n][left - 1]]
    BY <1>5, Zenon
  <2>q. QED BY <2>1, Zenon
<1>7. ASSUME NEW n \in Nat, NEW k \in Nat
      PROVE  /\ Answers[0][k] = 0 /\ Answers[n][0] = 0
             /\ Answers[n + 1][k + 1] = Answers[n][k + 1] + One[k] + Answers[n + 1][k]
  <2>1. Answers[0][k] = 0 /\ Answers[n][0] = 0 BY <1>6
  <2>2. n + 1 \in Nat /\ k + 1 \in Nat /\ (n + 1) - 1 = n /\ (k + 1) - 1 = k OBVIOUS
  <2>3. ~(n + 1 = 0 \/ k + 1 = 0) OBVIOUS
  <2>4. Answers[n + 1][k + 1] = Answers[(n + 1) - 1][k + 1] + 1 + Answers[n + 1][(k + 1) - 1]
    BY <1>6, <2>2, <2>3, Zenon
  <2>q. QED BY <2>1, <2>2, <2>4 DEF One
<1>q. QED BY <1>1, <1>7, TableIsBuilt

LEMMA UsesIsTable == IsTable(Uses, OneAtFirst)
<1>1. OneAtFirst \in [Nat -> Nat] BY DEF OneAtFirst
<1>2. PICK T \in [Nat -> [Nat -> Nat]] : IsTable(T, OneAtFirst) BY <1>1, Tables
<1>3. ASSUME NEW n \in Nat, NEW k \in Nat
      PROVE  T[n][k] = IF n = 0 \/ k = 0 THEN 0 ELSE T[n - 1][k] + (IF k = 1 THEN 1 ELSE 0) + T[n][k - 1]
  <2>1. /\ n = 0 \/ k = 0 => T[n][k] = 0
        /\ ~(n = 0 \/ k = 0) => T[n][k] = T[n - 1][k] + OneAtFirst[k - 1] + T[n][k - 1]
    BY <1>1, <1>2, TableEquation
  <2>2. k # 0 => OneAtFirst[k - 1] = IF k = 1 THEN 1 ELSE 0 BY DEF OneAtFirst
  <2>q. QED BY <2>1, <2>2
<1>4. T = [n \in Nat |-> [left \in Nat |->
            IF n = 0 \/ left = 0 THEN 0 ELSE T[n - 1][left] + (IF left = 1 THEN 1 ELSE 0) + T[n][left - 1]]]
  BY <1>2, <1>3
<1>5. Uses = [n \in Nat |-> [left \in Nat |->
            IF n = 0 \/ left = 0 THEN 0 ELSE Uses[n - 1][left] + (IF left = 1 THEN 1 ELSE 0) + Uses[n][left - 1]]]
  BY <1>4, Zenon DEF Uses
<1> HIDE DEF Uses
<1>6. ASSUME NEW n \in Nat, NEW k \in Nat
      PROVE  Uses[n][k] = IF n = 0 \/ k = 0 THEN 0
                             ELSE Uses[n - 1][k] + (IF k = 1 THEN 1 ELSE 0) + Uses[n][k - 1]
  <2>1. Uses[n] = [left \in Nat |->
            IF n = 0 \/ left = 0 THEN 0 ELSE Uses[n - 1][left] + (IF left = 1 THEN 1 ELSE 0) + Uses[n][left - 1]]
    BY <1>5, Zenon
  <2>q. QED BY <2>1, Zenon
<1>7. ASSUME NEW n \in Nat, NEW k \in Nat
      PROVE  /\ Uses[0][k] = 0 /\ Uses[n][0] = 0
             /\ Uses[n + 1][k + 1] = Uses[n][k + 1] + OneAtFirst[k] + Uses[n + 1][k]
  <2>1. Uses[0][k] = 0 /\ Uses[n][0] = 0 BY <1>6
  <2>2. n + 1 \in Nat /\ k + 1 \in Nat /\ (n + 1) - 1 = n /\ (k + 1) - 1 = k OBVIOUS
  <2>3. ~(n + 1 = 0 \/ k + 1 = 0) OBVIOUS
  <2>4. Uses[n + 1][k + 1] = Uses[(n + 1) - 1][k + 1]
                             + (IF k + 1 = 1 THEN 1 ELSE 0) + Uses[n + 1][(k + 1) - 1]
    BY <1>6, <2>2, <2>3, Zenon
  <2>5. OneAtFirst[k] = IF k + 1 = 1 THEN 1 ELSE 0 BY DEF OneAtFirst
  <2>q. QED BY <2>1, <2>2, <2>4, <2>5
<1>q. QED BY <1>1, <1>7, TableIsBuilt

LEMMA TableEntries ==
  ASSUME NEW extra, NEW T, IsTable(T, extra), NEW n \in Nat, NEW k \in Nat
  PROVE  T[n][k] \in Nat
  BY DEF IsTable

LEMMA ColumnsGrow ==
  ASSUME NEW extra \in [Nat -> Nat], NEW T, IsTable(T, extra),
         NEW m \in Nat, NEW n \in Nat, m <= n, NEW k \in Nat
  PROVE  T[m][k] <= T[n][k]
<1>e. \A i, j \in Nat : T[i][j] \in Nat BY TableEntries
<1>1. ASSUME NEW i \in Nat PROVE T[i][k] <= T[i + 1][k]
  <2>1. CASE k = 0
    <3>1. T[i][0] = 0 /\ T[i + 1][0] = 0 BY DEF IsTable
    <3>q. QED BY <2>1, <3>1
  <2>2. CASE k # 0
    <3>1. k - 1 \in Nat /\ (k - 1) + 1 = k /\ i + 1 \in Nat BY <2>2
    <3>2. T[i + 1][(k - 1) + 1] = T[i][(k - 1) + 1] + extra[k - 1] + T[i + 1][k - 1]
      BY <3>1 DEF IsTable
    <3>3. extra[k - 1] \in Nat /\ T[i + 1][k - 1] \in Nat /\ T[i][k] \in Nat BY <3>1, <1>e
    <3>q. QED BY <3>1, <3>2, <3>3
  <2>q. QED BY <2>1, <2>2
<1> DEFINE S == {d \in Nat : T[m][k] <= T[m + d][k]}
<1>2. 0 \in S
  <2>1. m + 0 = m /\ T[m][k] \in Nat BY <1>e
  <2>q. QED BY <2>1
<1>3. ASSUME NEW d \in Nat, d \in S PROVE d + 1 \in S
  <2>1. T[m + d][k] <= T[(m + d) + 1][k] BY <1>1
  <2>2. T[m][k] <= T[m + d][k] BY <1>3
  <2>3. (m + d) + 1 = m + (d + 1) OBVIOUS
  <2>4. T[m][k] \in Nat /\ T[m + d][k] \in Nat /\ T[m + (d + 1)][k] \in Nat
    BY <1>e
  <2>q. QED BY <2>1, <2>2, <2>3, <2>4
<1> HIDE DEF S
<1>4. Nat \subseteq S BY <1>2, <1>3, NatSets
<1>5. n - m \in Nat /\ m + (n - m) = n OBVIOUS
<1>q. QED BY <1>4, <1>5 DEF S

(* Rows grow, and the later a row the faster.                              *)
LEMMA RowsGrow ==
  ASSUME NEW extra \in [Nat -> Nat], NEW T, IsTable(T, extra),
         NEW m \in Nat, NEW n \in Nat, m <= n, NEW k \in Nat
  PROVE  /\ T[m][k] <= T[m][k + 1]
         /\ T[m][k + 1] + T[n][k] <= T[m][k] + T[n][k + 1]
<1>e. \A i, j \in Nat : T[i][j] \in Nat BY TableEntries
<1>1. \A i, j \in Nat : T[i + 1][j + 1] = T[i][j + 1] + extra[j] + T[i + 1][j]
  BY DEF IsTable
<1>2. \A j \in Nat : T[0][j] = 0 BY DEF IsTable
<1>3. /\ T[m][k] \in Nat /\ T[m][k + 1] \in Nat /\ T[n][k] \in Nat /\ T[n][k + 1] \in Nat
      /\ extra[k] \in Nat
  BY <1>e
<1>4. ASSUME NEW i \in Nat PROVE T[i][k] <= T[i][k + 1]
  <2>1. CASE i = 0 BY <1>2, <2>1
  <2>2. CASE i # 0
    <3>1. i - 1 \in Nat /\ (i - 1) + 1 = i BY <2>2
    <3>2. T[(i - 1) + 1][k + 1] = T[i - 1][k + 1] + extra[k] + T[(i - 1) + 1][k]
      BY <1>1, <3>1
    <3>3. T[i - 1][k + 1] \in Nat /\ T[i][k] \in Nat BY <3>1, <1>e
    <3>q. QED BY <1>3, <3>1, <3>2, <3>3
  <2>q. QED BY <2>1, <2>2
<1>5. CASE m = 0 BY <1>2, <1>3, <1>4, <1>5
<1>6. CASE m # 0
  <2>1. /\ m - 1 \in Nat /\ (m - 1) + 1 = m
        /\ n - 1 \in Nat /\ (n - 1) + 1 = n /\ m - 1 <= n - 1 /\ k + 1 \in Nat
    BY <1>6
  <2>2. T[(m - 1) + 1][k + 1] = T[m - 1][k + 1] + extra[k] + T[(m - 1) + 1][k]
    BY <1>1, <2>1
  <2>3. T[(n - 1) + 1][k + 1] = T[n - 1][k + 1] + extra[k] + T[(n - 1) + 1][k]
    BY <1>1, <2>1
  <2>4. T[m - 1][k + 1] <= T[n - 1][k + 1] BY <2>1, ColumnsGrow
  <2>5. T[m - 1][k + 1] \in Nat /\ T[n - 1][k + 1] \in Nat BY <2>1, <1>e
  <2>q. QED BY <1>3, <1>4, <2>1, <2>2, <2>3, <2>4, <2>5
<1>q. QED BY <1>5, <1>6

(* How much W can have become: P says how much of it guesses with at most  *)
(* t attempts left have made, and B[t] who has no guess with more left; P  *)
(* climbs from t to t + 1 by no more than T does in the row of their       *)
(* number.                                                                 *)
Rung(T, B, P, t) ==
    P[t + 1] + T[Cardinality(B[t])][t] <= P[t] + T[Cardinality(B[t])][t + 1]

Climbs(T, B, P) == P[0] = 0 /\ \A t \in Nat : Rung(T, B, P, t)

Ladder(T, B, W, max) == \E P \in [Nat -> Nat] : Climbs(T, B, P) /\ W <= P[max]

LEMMA RungStays ==
  ASSUME NEW extra \in [Nat -> Nat], NEW T, IsTable(T, extra),
         NEW B \in [Nat -> SUBSET Handlers], NEW C \in [Nat -> SUBSET Handlers],
         NEW P \in [Nat -> Nat], NEW t \in Nat, B[t] \subseteq C[t], Rung(T, B, P, t)
  PROVE  Rung(T, C, P, t)
<1>e. \A i, j \in Nat : T[i][j] \in Nat BY TableEntries
<1> DEFINE m == Cardinality(B[t])
           n == Cardinality(C[t])
<1>1. m \in Nat /\ n \in Nat /\ m <= n
  <2>1. B[t] \in SUBSET Handlers /\ C[t] \in SUBSET Handlers OBVIOUS
  <2>q. QED BY <2>1, HandlerCount, FewerHandlers
<1>2. P[t + 1] + T[m][t] <= P[t] + T[m][t + 1] BY DEF Rung
<1> HIDE DEF m, n
<1>3. T[m][t + 1] + T[n][t] <= T[m][t] + T[n][t + 1] BY <1>1, RowsGrow
<1>4. /\ T[m][t] \in Nat /\ T[m][t + 1] \in Nat /\ T[n][t] \in Nat /\ T[n][t + 1] \in Nat
      /\ P[t] \in Nat /\ P[t + 1] \in Nat
  <2>1. P[t] \in Nat /\ P[t + 1] \in Nat OBVIOUS
  <2>2. t + 1 \in Nat OBVIOUS
  <2>q. QED BY <1>1, <1>e, <2>1, <2>2, Zenon
<1>5. P[t + 1] + T[n][t] <= P[t] + T[n][t + 1] BY <1>2, <1>3, <1>4
<1>q. QED BY <1>5 DEF Rung, n

LEMMA LadderStarts ==
  ASSUME NEW extra \in [Nat -> Nat], NEW T, IsTable(T, extra),
         NEW B \in [Nat -> SUBSET Handlers], NEW max \in Nat
  PROVE  Ladder(T, B, 0, max)
<1>e. \A i, j \in Nat : T[i][j] \in Nat BY TableEntries
<1> DEFINE P == [t \in Nat |-> 0]
<1>1. P \in [Nat -> Nat] /\ P[0] = 0 /\ 0 <= P[max] OBVIOUS
<1>2. ASSUME NEW t \in Nat PROVE Rung(T, B, P, t)
  <2> DEFINE m == Cardinality(B[t])
  <2>1. m \in Nat
    <3>1. B[t] \in SUBSET Handlers OBVIOUS
    <3>q. QED BY <3>1, HandlerCount
  <2>2. P[t] = 0 /\ P[t + 1] = 0 OBVIOUS
  <2> HIDE DEF m, P
  <2>3. m <= m BY <2>1
  <2>4. T[m][t] <= T[m][t + 1] BY <2>1, <2>3, RowsGrow
  <2>5. T[m][t] \in Nat /\ T[m][t + 1] \in Nat
    <3>1. t + 1 \in Nat OBVIOUS
    <3>q. QED BY <2>1, <3>1, <1>e, Zenon
  <2>6. P[t + 1] + T[m][t] <= P[t] + T[m][t + 1] BY <2>2, <2>4, <2>5
  <2>q. QED BY <2>6 DEF Rung, m
<1> HIDE DEF P
<1>q. QED BY <1>1, <1>2 DEF Ladder, Climbs

LEMMA LadderStays ==
  ASSUME NEW extra \in [Nat -> Nat], NEW T, IsTable(T, extra),
         NEW B \in [Nat -> SUBSET Handlers], NEW C \in [Nat -> SUBSET Handlers],
         \A t \in Nat : B[t] \subseteq C[t],
         NEW W \in Nat, NEW V \in Nat, V <= W, NEW max \in Nat, Ladder(T, B, W, max)
  PROVE  Ladder(T, C, V, max)
<1>1. PICK P \in [Nat -> Nat] : Climbs(T, B, P) /\ W <= P[max] BY DEF Ladder
<1>2. \A t \in Nat : Rung(T, C, P, t) BY <1>1, RungStays DEF Climbs
<1>3. V <= P[max]
  <2>1. P[max] \in Nat OBVIOUS
  <2>q. QED BY <2>1, <1>1
<1>q. QED BY <1>1, <1>2, <1>3 DEF Ladder, Climbs

(* What climbs stays below the table.                                      *)
LEMMA ClimbIsBelow ==
  ASSUME NEW extra \in [Nat -> Nat], NEW T, IsTable(T, extra),
         NEW B \in [Nat -> SUBSET Handlers], NEW P \in [Nat -> Nat], Climbs(T, B, P),
         NEW C \in SUBSET Handlers, NEW d \in Nat,
         \A t \in Nat : t < d => B[t] \subseteq C
  PROVE  P[d] <= T[Cardinality(C)][d]
<1>e. \A i, j \in Nat : T[i][j] \in Nat BY TableEntries
<1> DEFINE n == Cardinality(C)
           S == {t \in Nat : t <= d => P[t] <= T[n][t]}
<1>n. n \in Nat BY HandlerCount
<1> HIDE DEF n
<1>1. 0 \in S
  <2>1. P[0] = 0 /\ T[n][0] = 0 BY <1>n DEF IsTable, Climbs
  <2>q. QED BY <2>1
<1>2. ASSUME NEW t \in Nat, t \in S PROVE t + 1 \in S
  <2> SUFFICES ASSUME t + 1 <= d PROVE P[t + 1] <= T[n][t + 1] OBVIOUS
  <2>1. t < d /\ t <= d OBVIOUS
  <2>2. P[t] <= T[n][t] BY <1>2, <2>1
  <2> DEFINE D == [s \in Nat |-> C]
  <2>3. Rung(T, D, P, t)
    <3>1. D \in [Nat -> SUBSET Handlers] /\ B[t] \subseteq D[t] BY <2>1
    <3>2. Rung(T, B, P, t) BY DEF Climbs
    <3> HIDE DEF D
    <3>q. QED BY <3>1, <3>2, RungStays
  <2>4. P[t + 1] + T[n][t] <= P[t] + T[n][t + 1] BY <2>3 DEF Rung, n
  <2>5. P[t] \in Nat /\ P[t + 1] \in Nat /\ T[n][t] \in Nat /\ T[n][t + 1] \in Nat BY <1>n, <1>e
  <2>q. QED BY <2>2, <2>4, <2>5
<1> HIDE DEF S
<1>3. Nat \subseteq S BY <1>1, <1>2, NatSets
<1>q. QED BY <1>3 DEF S, n

LEMMA LadderBounds ==
  ASSUME NEW extra \in [Nat -> Nat], NEW T, IsTable(T, extra),
         NEW B \in [Nat -> SUBSET Handlers], NEW W \in Nat, NEW max \in Nat,
         Ladder(T, B, W, max)
  PROVE  W <= T[Cardinality(Handlers)][max]
<1>e. \A i, j \in Nat : T[i][j] \in Nat BY TableEntries
<1>1. PICK P \in [Nat -> Nat] : Climbs(T, B, P) /\ W <= P[max] BY DEF Ladder
<1>2. Handlers \in SUBSET Handlers /\ \A t \in Nat : B[t] \subseteq Handlers OBVIOUS
<1>3. P[max] <= T[Cardinality(Handlers)][max] BY <1>1, <1>2, ClimbIsBelow
<1>4. Cardinality(Handlers) \in Nat BY <1>2, HandlerCount
<1>5. P[max] \in Nat /\ T[Cardinality(Handlers)][max] \in Nat BY <1>4, <1>e
<1>q. QED BY <1>1, <1>3, <1>5

(* A guess with d attempts left, by h, which is written back: whoever had  *)
(* no guess with so many left has none now, and h has none any more.       *)
LEMMA LadderClimbs ==
  ASSUME NEW extra \in [Nat -> Nat], NEW T, IsTable(T, extra),
         NEW B \in [Nat -> SUBSET Handlers], NEW C \in [Nat -> SUBSET Handlers],
         NEW W \in Nat, NEW max \in Nat, Ladder(T, B, W, max),
         NEW d \in 1..max, NEW p \in Nat, p <= extra[d - 1],
         NEW h \in Handlers, h \notin B[d - 1],
         \A t \in Nat : t < d - 1 => B[t] \subseteq B[d - 1],
         B[d - 1] \cup {h} \subseteq C[d - 1],
         \A t \in Nat : t >= d => B[t] \subseteq C[t]
  PROVE  Ladder(T, C, W + p, max)
<1>e. \A i, j \in Nat : T[i][j] \in Nat BY TableEntries
<1>d. d \in Nat /\ d - 1 \in Nat /\ (d - 1) + 1 = d /\ d # 0 /\ d <= max OBVIOUS
<1>1. PICK P \in [Nat -> Nat] : Climbs(T, B, P) /\ W <= P[max] BY DEF Ladder
<1> DEFINE Q == [t \in Nat |-> IF t < d THEN 0 ELSE P[t] + p]
<1>2. Q \in [Nat -> Nat] OBVIOUS
<1>3. /\ \A t \in Nat : t < d => Q[t] = 0
      /\ \A t \in Nat : t >= d => Q[t] = P[t] + p
  <2>1. \A t \in Nat : Q[t] = IF t < d THEN 0 ELSE P[t] + p OBVIOUS
  <2> HIDE DEF Q
  <2>q. QED BY <1>d, <2>1
<1> HIDE DEF Q
<1>4. Q[0] = 0 /\ W + p <= Q[max]
  <2>1. P[max] \in Nat OBVIOUS
  <2>2. Q[max] = P[max] + p BY <1>d, <1>3
  <2>q. QED BY <1>1, <1>3, <1>d, <2>1, <2>2
<1>5. ASSUME NEW t \in Nat PROVE Rung(T, C, Q, t)
  <2> DEFINE n == Cardinality(C[t])
  <2>n. n \in Nat
    <3>1. C[t] \in SUBSET Handlers OBVIOUS
    <3>q. QED BY <3>1, HandlerCount
  <2>1. T[n][t] <= T[n][t + 1] /\ T[n][t] \in Nat /\ T[n][t + 1] \in Nat
    <3> HIDE DEF n
    <3>1. n <= n BY <2>n
    <3>2. T[n][t] <= T[n][t + 1] BY <2>n, <3>1, RowsGrow
    <3>3. t + 1 \in Nat OBVIOUS
    <3>q. QED BY <2>n, <3>2, <3>3, <1>e, Zenon
  <2>2. CASE t + 1 < d
    <3>1. Q[t] = 0 /\ Q[t + 1] = 0 BY <1>3, <2>2
    <3>q. QED BY <2>1, <3>1 DEF Rung
  <2>3. CASE t >= d
    <3>1. B[t] \subseteq C[t] /\ Rung(T, B, P, t) BY <1>1, <2>3 DEF Climbs
    <3>2. Rung(T, C, P, t) BY <3>1, RungStays
    <3>3. P[t + 1] + T[n][t] <= P[t] + T[n][t + 1] BY <3>2 DEF Rung
    <3>4. Q[t] = P[t] + p /\ Q[t + 1] = P[t + 1] + p BY <1>3, <2>3
    <3>5. P[t] \in Nat /\ P[t + 1] \in Nat OBVIOUS
    <3> HIDE DEF n
    <3>6. Q[t + 1] + T[n][t] <= Q[t] + T[n][t + 1] BY <3>3, <3>4, <3>5, <2>1
    <3>q. QED BY <3>6 DEF Rung, n
  <2>4. CASE t + 1 = d
    <3> DEFINE m == Cardinality(B[t])
    <3>t. t = d - 1 /\ t < d /\ t + 1 >= d BY <2>4
    <3>1. Q[t] = 0 /\ Q[t + 1] = P[d] + p BY <1>3, <3>t, <2>4
    <3>2. B[t] \in SUBSET Handlers /\ h \notin B[t] /\ B[t] \cup {h} \subseteq C[t]
      BY <3>t
    <3>3. m \in Nat /\ m + 1 <= n
      <4>1. Cardinality(B[t] \cup {h}) = m + 1 BY <3>2, OneMoreHandler
      <4>2. B[t] \cup {h} \in SUBSET C[t] /\ C[t] \in SUBSET Handlers BY <3>2
      <4>q. QED BY <4>1, <4>2, <3>2, HandlerCount, FewerHandlers
    <3>4. \A s \in Nat : s < d => B[s] \subseteq B[t]
      <4> SUFFICES ASSUME NEW s \in Nat, s < d PROVE B[s] \subseteq B[t] OBVIOUS
      <4>1. s = t \/ s < d - 1 BY <3>t, <1>d
      <4>q. QED BY <4>1, <3>t
    <3>5. P[d] <= T[m][d] BY <1>1, <1>d, <3>2, <3>4, ClimbIsBelow
    <3> HIDE DEF m, n
    <3>6. T[m + 1][t + 1] = T[m][t + 1] + extra[t] + T[m + 1][t] BY <3>3 DEF IsTable
    <3>7. T[m + 1][t + 1] + T[n][t] <= T[m + 1][t] + T[n][t + 1]
      <4>1. m + 1 \in Nat BY <3>3
      <4>q. QED BY <4>1, <2>n, <3>3, RowsGrow
    <3>8. /\ T[m][d] \in Nat /\ T[m + 1][t] \in Nat /\ T[m + 1][t + 1] \in Nat
          /\ extra[t] \in Nat /\ P[d] \in Nat /\ p <= extra[t]
      <4>1. m + 1 \in Nat /\ t + 1 \in Nat BY <3>3
      <4>2. extra[t] \in Nat /\ P[d] \in Nat BY <1>d
      <4>3. p <= extra[t] BY <3>t
      <4>q. QED BY <3>3, <1>d, <1>e, <4>1, <4>2, <4>3, Zenon
    <3>9. Q[t + 1] + T[n][t] <= Q[t] + T[n][t + 1]
      BY <2>1, <2>4, <3>1, <3>5, <3>6, <3>7, <3>8
    <3>q. QED BY <3>9 DEF Rung, n
  <2>5. t + 1 < d \/ t >= d \/ t + 1 = d BY <1>d
  <2>q. QED BY <2>2, <2>3, <2>4, <2>5
<1>q. QED BY <1>2, <1>4, <1>5 DEF Ladder, Climbs

(* Who has no guess with more than t attempts left, when H[t] holds one    *)
(* and what is stored allows one for the t of A.                           *)
Spent(H, A) == [t \in Nat |-> {h \in Handlers : h \notin H[t] /\ t \notin A}]

LEMMA SpentStarts ==
  ASSUME NEW extra \in [Nat -> Nat], NEW T, IsTable(T, extra), NEW max \in Nat,
         NEW H, NEW A
  PROVE  Ladder(T, Spent(H, A), 0, max)
<1>1. Spent(H, A) \in [Nat -> SUBSET Handlers] BY DEF Spent
<1>q. QED BY <1>1, LadderStarts

LEMMA SpentBounds ==
  ASSUME NEW extra \in [Nat -> Nat], NEW T, IsTable(T, extra), NEW max \in Nat,
         NEW H, NEW A, NEW W \in Nat, Ladder(T, Spent(H, A), W, max)
  PROVE  W <= T[Cardinality(Handlers)][max]
<1>1. Spent(H, A) \in [Nat -> SUBSET Handlers] BY DEF Spent
<1>q. QED BY <1>1, LadderBounds

(* A step by which nobody gets a guess that was not there.                 *)
LEMMA SpentStays ==
  ASSUME NEW extra \in [Nat -> Nat], NEW T, IsTable(T, extra), NEW max \in Nat,
         NEW H, NEW A, NEW G, NEW B,
         \A t \in Nat : /\ t \in B => t \in A
                        /\ \A k \in Handlers : k \in G[t] => k \in H[t] \/ t \in A,
         NEW W \in Nat, NEW V \in Nat, V <= W, Ladder(T, Spent(H, A), W, max)
  PROVE  Ladder(T, Spent(G, B), V, max)
<1>1. /\ Spent(H, A) \in [Nat -> SUBSET Handlers]
      /\ Spent(G, B) \in [Nat -> SUBSET Handlers]
      /\ \A t \in Nat : Spent(H, A)[t] \subseteq Spent(G, B)[t]
  BY DEF Spent
<1>q. QED BY <1>1, LadderStays

(* A step by which h uses a guess with d attempts left, after which what   *)
(* is stored allows fewer.                                                 *)
LEMMA SpentClimbs ==
  ASSUME NEW extra \in [Nat -> Nat], NEW T, IsTable(T, extra), NEW max \in Nat,
         NEW H, NEW A, NEW G, NEW B,
         NEW W \in Nat, Ladder(T, Spent(H, A), W, max),
         NEW d \in 1..max, NEW p \in Nat, p <= extra[d - 1],
         NEW h \in Handlers, h \in H[d - 1], h \notin G[d - 1],
         \A t \in Nat : \A k \in Handlers : k \in G[t] => k \in H[t],
         \A t \in Nat : t < d - 1 => \A k \in Handlers : k \in H[d - 1] => k \in H[t],
         \A t \in Nat : t < d - 1 /\ d - 1 \in A => t \in A,
         \A t \in Nat : t \in B => t < d - 1
  PROVE  Ladder(T, Spent(G, B), W + p, max)
<1>d. d \in Nat /\ d - 1 \in Nat /\ ~(d - 1 < d - 1) /\ \A t \in Nat : t >= d => ~(t < d - 1)
  OBVIOUS
<1>1. /\ Spent(H, A) \in [Nat -> SUBSET Handlers]
      /\ Spent(G, B) \in [Nat -> SUBSET Handlers]
  BY DEF Spent
<1>2. ASSUME NEW t \in Nat, NEW k
      PROVE  /\ k \in Spent(H, A)[t] <=> k \in Handlers /\ k \notin H[t] /\ t \notin A
             /\ k \in Spent(G, B)[t] <=> k \in Handlers /\ k \notin G[t] /\ t \notin B
  BY DEF Spent
<1>3. h \notin Spent(H, A)[d - 1] BY <1>2, <1>d
<1>4. \A t \in Nat : t < d - 1 => Spent(H, A)[t] \subseteq Spent(H, A)[d - 1] BY <1>2, <1>d
<1>5. Spent(H, A)[d - 1] \cup {h} \subseteq Spent(G, B)[d - 1] BY <1>2, <1>d
<1>6. \A t \in Nat : t >= d => Spent(H, A)[t] \subseteq Spent(G, B)[t] BY <1>2, <1>d
<1> DEFINE S == Spent(H, A)
           R == Spent(G, B)
<1>7. /\ S \in [Nat -> SUBSET Handlers] /\ R \in [Nat -> SUBSET Handlers]
      /\ Ladder(T, S, W, max) /\ h \notin S[d - 1]
      /\ \A t \in Nat : t < d - 1 => S[t] \subseteq S[d - 1]
      /\ S[d - 1] \cup {h} \subseteq R[d - 1]
      /\ \A t \in Nat : t >= d => S[t] \subseteq R[t]
  BY <1>1, <1>3, <1>4, <1>5, <1>6
<1> HIDE DEF S, R
<1>8. Ladder(T, R, W + p, max) BY <1>7, LadderClimbs
<1>q. QED BY <1>8 DEF R
=============================================================================
