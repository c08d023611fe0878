--------------------------- MODULE Blockchain_proofs ---------------------------
(***************************************************************************)
(* The ledger is correct for every emission schedule and every set of      *)
(* blocks, arriving in every order.                                        *)
(*                                                                         *)
(* The supply cap: what has been issued is bounded together with what the  *)
(* current reward can still cause: total + 2 * interval * reward never     *)
(* exceeds the cap, because an epoch adds at most interval * reward and    *)
(* halving gives up as much.                                               *)
(*                                                                         *)
(* The block store: a block of positive height is stored only on top of a  *)
(* stored parent, so the path of a stored block is stored from the moment  *)
(* the block is, and what add_block decides when it stores a block never   *)
(* has to be decided again.                                                *)
(*                                                                         *)
(* The unspent outputs: replaying a chain that is accepted adds, block by  *)
(* block, at most the subsidy to what the outputs are worth, and takes out *)
(* exactly what the transactions spend.  Replay, ApplyBlock and ShiftRight *)
(* are recursive functions: each is shown to exist (by induction on the    *)
(* length of its domain) before its equation is used.                      *)
(*                                                                         *)
(* A block on top of the tip is applied to the outputs of the tip: what    *)
(* the chain accepted once is what replaying the longer chain accepts      *)
(* again, and an output that the block does not spend stays.               *)
(*                                                                         *)
(* The history: a line of an address is the worth of what its transaction  *)
(* adds to the outputs of the address and takes from them, so that the     *)
(* lines of the chain sum to the balance.                                  *)
(***************************************************************************)
EXTENDS Emission, Blockchain, FiniteSetTheorems, TLAPS

(* Induction. *)

\* Induction on finite sets: there is no infinite descent among the subsets of
\* a finite set (FS_StrictSubsetOrderingWellFounded), so a least one that is
\* not Good would be one.
LEMMA SetInduction ==
    ASSUME NEW S, IsFiniteSet(S), NEW Good,
           \A s \in SUBSET S : (\A t \in SUBSET s : t # s => t \in Good) => s \in Good
    PROVE  \A s \in SUBSET S : s \in Good
<1> DEFINE Bad == (SUBSET S) \ Good
<1> SUFFICES ASSUME Bad # {} PROVE FALSE
  OBVIOUS
<1>1. Bad \subseteq FiniteSubsetsOf(S)
  BY FS_FiniteSubsetsOfFinite
<1>2. PICK s \in Bad : \A t \in Bad : ~ (<<t, s>> \in StrictSubsetOrdering(S))
  <2>1. IsWellFoundedOn(StrictSubsetOrdering(S), FiniteSubsetsOf(S))
    BY FS_StrictSubsetOrderingWellFounded
  <2> HIDE DEF Bad
  <2> QED BY <1>1, <2>1, WFMin
<1>3. ASSUME NEW t \in SUBSET s, t # s PROVE t \in Good
  BY <1>2, <1>3 DEF StrictSubsetOrdering
<1> QED BY <1>2, <1>3

\* Induction on numbers: the intervals 1..k of a finite one are sets.
LEMMA IntervalInduction ==
    ASSUME NEW Good, 0 \in Good, \A k \in Nat : k \in Good => k + 1 \in Good
    PROVE  \A n \in Nat : n \in Good
<1> TAKE n \in Nat
<1> DEFINE S == 1..n
           Sets == { s \in SUBSET S : \A k \in 0..n : s = 1..k => k \in Good }
<1>1. IsFiniteSet(S)
  BY FS_Interval
<1>2. ASSUME NEW s \in SUBSET S, \A t \in SUBSET s : t # s => t \in Sets,
             NEW k \in 0..n, s = 1..k
      PROVE  k \in Good
  <2>1. CASE k = 0
    BY <2>1
  <2>2. CASE k # 0
    <3> DEFINE j == k - 1
    <3>1. j \in 0..n /\ j \in Nat /\ j + 1 = k
      BY <2>2
    <3>2. 1..j \in SUBSET s /\ 1..j # s
      <4>1. k \in s /\ k \notin 1..j
        BY <1>2, <2>2
      <4> QED BY <1>2, <4>1
    <3>3. 1..j \in Sets
      BY <1>2, <3>2
    <3>4. j \in Good
      BY <3>1, <3>3
    <3> QED BY <3>1, <3>4
  <2> QED BY <2>1, <2>2
<1>3. \A s \in SUBSET S : s \in Sets
  <2>1. \A s \in SUBSET S : (\A t \in SUBSET s : t # s => t \in Sets) => s \in Sets
    BY <1>2
  <2> HIDE DEF Sets, S
  <2> QED BY <1>1, <2>1, SetInduction
<1>4. S \in Sets
  <2> HIDE DEF Sets
  <2> QED BY <1>3
<1>5. \A k \in 0..n : S = 1..k => k \in Good
  <2> HIDE DEF S
  <2> QED BY <1>4
<1>6. n \in 0..n /\ S = 1..n
  OBVIOUS
<1> HIDE DEF S
<1> QED BY <1>5, <1>6

-----------------------------------------------------------------------------
(* Sums over finite sets. *)

Pick(s) == CHOOSE x \in s : TRUE

\* The function MapThenFoldSet chooses.
SumsUp(g, f, S) ==
    g = [ s \in SUBSET S |-> IF s = {} THEN 0 ELSE f[Pick(s)] + g[s \ {Pick(s)}] ]

\* The fold is read off one such function, if there is one.
LEMMA ChooseSum ==
    ASSUME NEW S, NEW f, \E g : SumsUp(g, f, S)
    PROVE  \E g : SumsUp(g, f, S) /\ SumFunctionOnSet(f, S) = g[S]
<1>1. SumFunctionOnSet(f, S) = (CHOOSE g : SumsUp(g, f, S))[S]
  BY DEF SumFunctionOnSet, FoldFunctionOnSet, MapThenFoldSet, SumsUp, Pick
<1> QED BY <1>1

\* Two such functions agree where both are defined, ...
LEMMA SumsAgree ==
    ASSUME NEW S, IsFiniteSet(S), NEW f, NEW g, NEW R, NEW h,
           SumsUp(g, f, S), SumsUp(h, f, R)
    PROVE  \A s \in SUBSET S : s \subseteq R => g[s] = h[s]
<1> DEFINE Good == { s \in SUBSET S : s \subseteq R => g[s] = h[s] }
<1>1. ASSUME NEW s \in SUBSET S, \A t \in SUBSET s : t # s => t \in Good, s \subseteq R
      PROVE  g[s] = h[s]
  <2>1. g[s] = IF s = {} THEN 0 ELSE f[Pick(s)] + g[s \ {Pick(s)}]
    BY DEF SumsUp
  <2>2. h[s] = IF s = {} THEN 0 ELSE f[Pick(s)] + h[s \ {Pick(s)}]
    BY <1>1 DEF SumsUp
  <2>3. s # {} => Pick(s) \in s
    BY DEF Pick
  <2>4. s # {} => g[s \ {Pick(s)}] = h[s \ {Pick(s)}]
    BY <1>1, <2>3
  <2> QED BY <2>1, <2>2, <2>4
<1>2. \A s \in SUBSET S : (\A t \in SUBSET s : t # s => t \in Good) => s \in Good
  BY <1>1
<1>3. \A s \in SUBSET S : s \in Good
  <2> HIDE DEF Good
  <2> QED BY <1>2, SetInduction
<1> QED BY <1>3

\* ... so there is one: it is put together from those of the smaller sets.
LEMMA SumExists ==
    ASSUME NEW S, IsFiniteSet(S), NEW f
    PROVE  \E g : SumsUp(g, f, S)
<1> DEFINE Good == { s \in SUBSET S : \E g : SumsUp(g, f, s) }
<1>1. ASSUME NEW s \in SUBSET S, \A t \in SUBSET s : t # s => t \in Good
      PROVE  \E g : SumsUp(g, f, s)
  <2> DEFINE sol(t) == CHOOSE g : SumsUp(g, f, t)
             G == [ t \in SUBSET s |-> IF t = {} THEN 0
                                       ELSE f[Pick(t)] + sol(t \ {Pick(t)})[t \ {Pick(t)}] ]
  <2>1. ASSUME NEW t \in SUBSET s, t # s PROVE SumsUp(sol(t), f, t)
    BY <1>1, <2>1
  <2>2. \A t : t # {} => Pick(t) \in t
    BY DEF Pick
  <2>3. ASSUME NEW t \in SUBSET s, t # s PROVE G[t] = sol(t)[t]
    <3>1. SumsUp(sol(t), f, t)
      BY <2>1, <2>3
    <3>2. sol(t)[t] = IF t = {} THEN 0 ELSE f[Pick(t)] + sol(t)[t \ {Pick(t)}]
      BY <3>1 DEF SumsUp
    <3>3. CASE t = {}
      BY <3>2, <3>3
    <3>4. CASE t # {}
      <4> DEFINE u == t \ {Pick(t)}
      <4>1. u \in SUBSET s /\ u # s /\ u \subseteq t
        BY <2>2, <3>4
      <4>2. SumsUp(sol(u), f, u) /\ IsFiniteSet(u)
        BY <2>1, <4>1, FS_Subset
      <4>3. sol(u)[u] = sol(t)[u]
        <5> HIDE DEF sol, u
        <5> QED BY <3>1, <4>1, <4>2, SumsAgree
      <4> QED BY <3>2, <3>4, <4>3
    <3> QED BY <3>3, <3>4
  <2>4. ASSUME NEW t \in SUBSET s
        PROVE  G[t] = IF t = {} THEN 0 ELSE f[Pick(t)] + G[t \ {Pick(t)}]
    <3>1. t # {} => t \ {Pick(t)} \in SUBSET s /\ t \ {Pick(t)} # s
      BY <2>2
    <3>2. t # {} => G[t \ {Pick(t)}] = sol(t \ {Pick(t)})[t \ {Pick(t)}]
      BY <2>3, <3>1
    <3>3. G[t] = IF t = {} THEN 0 ELSE f[Pick(t)] + sol(t \ {Pick(t)})[t \ {Pick(t)}]
      OBVIOUS
    <3> HIDE DEF G, sol
    <3> QED BY <3>2, <3>3
  <2>5. SumsUp(G, f, s)
    <3>1. G = [ t \in SUBSET s |-> G[t] ]
      OBVIOUS
    <3> HIDE DEF G
    <3> QED BY <2>4, <3>1 DEF SumsUp
  <2> QED BY <2>5
<1>2. \A s \in SUBSET S : (\A t \in SUBSET s : t # s => t \in Good) => s \in Good
  BY <1>1
<1>3. S \in Good
  <2> HIDE DEF Good
  <2> QED BY <1>2, SetInduction
<1> QED BY <1>3

\* The equation of a sum: one value more than the sum of the others.
LEMMA SumUnfolds ==
    ASSUME NEW S, IsFiniteSet(S), NEW f
    PROVE  SumFunctionOnSet(f, S) =
             IF S = {} THEN 0 ELSE f[Pick(S)] + SumFunctionOnSet(f, S \ {Pick(S)})
<1> DEFINE R == S \ {Pick(S)}
<1>1. PICK g : SumsUp(g, f, S) /\ SumFunctionOnSet(f, S) = g[S]
  BY SumExists, ChooseSum
<1>2. IsFiniteSet(R) /\ R \in SUBSET S
  BY FS_Subset
<1>3. PICK h : SumsUp(h, f, R) /\ SumFunctionOnSet(f, R) = h[R]
  BY <1>2, SumExists, ChooseSum
<1>4. g[R] = h[R]
  <2> HIDE DEF R
  <2> QED BY <1>1, <1>2, <1>3, SumsAgree
<1>5. g[S] = IF S = {} THEN 0 ELSE f[Pick(S)] + g[R]
  BY <1>1 DEF SumsUp
<1> QED BY <1>1, <1>3, <1>4, <1>5

\* A sum of integers is one.
LEMMA SumIsInt ==
    ASSUME NEW S, IsFiniteSet(S), NEW f, \A x \in S : f[x] \in Int
    PROVE  \A s \in SUBSET S : IsFiniteSet(s) /\ SumFunctionOnSet(f, s) \in Int
<1> DEFINE Good == { s \in SUBSET S : SumFunctionOnSet(f, s) \in Int }
<1>1. ASSUME NEW s \in SUBSET S, \A t \in SUBSET s : t # s => t \in Good
      PROVE  SumFunctionOnSet(f, s) \in Int
  <2>1. SumFunctionOnSet(f, s) =
             IF s = {} THEN 0 ELSE f[Pick(s)] + SumFunctionOnSet(f, s \ {Pick(s)})
    BY FS_Subset, SumUnfolds
  <2>2. s # {} => Pick(s) \in s
    BY DEF Pick
  <2>3. s # {} => SumFunctionOnSet(f, s \ {Pick(s)}) \in Int
    BY <1>1, <2>2
  <2> QED BY <2>1, <2>2, <2>3
<1>2. \A s \in SUBSET S : (\A t \in SUBSET s : t # s => t \in Good) => s \in Good
  BY <1>1
<1>3. \A s \in SUBSET S : s \in Good
  <2> HIDE DEF Good
  <2> QED BY <1>2, SetInduction
<1> QED BY <1>3, FS_Subset

\* Any element may be taken first.
LEMMA SumTakesAny ==
    ASSUME NEW S, IsFiniteSet(S), NEW f, \A x \in S : f[x] \in Int
    PROVE  \A y \in S : SumFunctionOnSet(f, S) = f[y] + SumFunctionOnSet(f, S \ {y})
<1> DEFINE Good == { s \in SUBSET S : \A y \in s :
                       SumFunctionOnSet(f, s) = f[y] + SumFunctionOnSet(f, s \ {y}) }
<1>i. \A t \in SUBSET S : IsFiniteSet(t) /\ SumFunctionOnSet(f, t) \in Int
  BY SumIsInt
<1>1. ASSUME NEW s \in SUBSET S, \A t \in SUBSET s : t # s => t \in Good, NEW y \in s
      PROVE  SumFunctionOnSet(f, s) = f[y] + SumFunctionOnSet(f, s \ {y})
  <2> DEFINE p == Pick(s)
             B == SumFunctionOnSet(f, (s \ {y}) \ {p})
  <2>1. p \in s
    BY DEF Pick
  <2>2. SumFunctionOnSet(f, s) = f[p] + SumFunctionOnSet(f, s \ {p})
    BY <1>i, <2>1, SumUnfolds
  <2> HIDE DEF p
  <2>3. CASE p = y
    BY <2>2, <2>3
  <2>4. CASE p # y
    <3>1. s \ {p} \in SUBSET s /\ s \ {p} # s /\ s \ {y} \in SUBSET s /\ s \ {y} # s
      BY <2>1
    <3>2. s \ {p} \in Good /\ s \ {y} \in Good
      BY <1>1, <3>1
    <3>3. /\ SumFunctionOnSet(f, s \ {p}) = f[y] + SumFunctionOnSet(f, (s \ {p}) \ {y})
          /\ SumFunctionOnSet(f, s \ {y}) = f[p] + B
      BY <2>1, <2>4, <3>2
    <3>4. (s \ {p}) \ {y} = (s \ {y}) \ {p}
      OBVIOUS
    <3>5. SumFunctionOnSet(f, s \ {p}) = f[y] + B
      BY <3>3, <3>4
    <3>6. B \in Int /\ f[y] \in Int /\ f[p] \in Int
      BY <1>i, <2>1
    <3> HIDE DEF B
    <3> QED BY <2>2, <3>3, <3>5, <3>6
  <2> QED BY <2>3, <2>4
<1>2. \A s \in SUBSET S : (\A t \in SUBSET s : t # s => t \in Good) => s \in Good
  BY <1>1
<1>3. S \in Good
  <2> HIDE DEF Good
  <2> QED BY <1>2, SetInduction
<1> QED BY <1>3

\* The empty sum.
LEMMA SumOfNone ==
    ASSUME NEW f
    PROVE  SumFunctionOnSet(f, {}) = 0
BY FS_EmptySet, SumUnfolds

\* A sum depends on the values its set picks out.
LEMMA SumOfAgreeing ==
    ASSUME NEW S, IsFiniteSet(S), NEW f, NEW g,
           \A x \in S : f[x] \in Int /\ f[x] = g[x]
    PROVE  SumFunctionOnSet(f, S) = SumFunctionOnSet(g, S)
<1> DEFINE Good == { s \in SUBSET S : SumFunctionOnSet(f, s) = SumFunctionOnSet(g, s) }
<1>1. ASSUME NEW s \in SUBSET S, \A t \in SUBSET s : t # s => t \in Good
      PROVE  SumFunctionOnSet(f, s) = SumFunctionOnSet(g, s)
  <2>1. CASE s = {}
    BY <2>1, SumOfNone
  <2>2. CASE s # {}
    <3>1. PICK x \in s : TRUE
      BY <2>2
    <3>2. IsFiniteSet(s) /\ \A y \in s : f[y] \in Int /\ g[y] \in Int
      BY FS_Subset
    <3>3. /\ SumFunctionOnSet(f, s) = f[x] + SumFunctionOnSet(f, s \ {x})
          /\ SumFunctionOnSet(g, s) = g[x] + SumFunctionOnSet(g, s \ {x})
      BY <3>1, <3>2, SumTakesAny
    <3>4. s \ {x} \in Good
      BY <1>1, <3>1
    <3> QED BY <3>1, <3>3, <3>4
  <2> QED BY <2>1, <2>2
<1>2. \A s \in SUBSET S : (\A t \in SUBSET s : t # s => t \in Good) => s \in Good
  BY <1>1
<1>3. S \in Good
  <2> HIDE DEF Good
  <2> QED BY <1>2, SetInduction
<1> QED BY <1>3

\* A sum of naturals is one.
LEMMA SumIsNat ==
    ASSUME NEW S, IsFiniteSet(S), NEW f, \A x \in S : f[x] \in Nat
    PROVE  SumFunctionOnSet(f, S) \in Nat
<1> DEFINE Good == { s \in SUBSET S : SumFunctionOnSet(f, s) \in Nat }
<1>1. ASSUME NEW s \in SUBSET S, \A t \in SUBSET s : t # s => t \in Good
      PROVE  SumFunctionOnSet(f, s) \in Nat
  <2>1. SumFunctionOnSet(f, s) =
             IF s = {} THEN 0 ELSE f[Pick(s)] + SumFunctionOnSet(f, s \ {Pick(s)})
    BY FS_Subset, SumUnfolds
  <2>2. s # {} => Pick(s) \in s
    BY DEF Pick
  <2>3. s # {} => SumFunctionOnSet(f, s \ {Pick(s)}) \in Nat
    BY <1>1, <2>2
  <2> QED BY <2>1, <2>2, <2>3
<1>2. \A s \in SUBSET S : (\A t \in SUBSET s : t # s => t \in Good) => s \in Good
  BY <1>1
<1>3. S \in Good
  <2> HIDE DEF Good
  <2> QED BY <1>2, SetInduction
<1> QED BY <1>3

\* A sum of zeros.
LEMMA SumOfZeros ==
    ASSUME NEW S, IsFiniteSet(S)
    PROVE  SumFunctionOnSet([ x \in S |-> 0 ], S) = 0
<1> DEFINE f == [ x \in S |-> 0 ]
           Good == { s \in SUBSET S : SumFunctionOnSet(f, s) = 0 }
<1>1. \A x \in S : f[x] = 0
  OBVIOUS
<1> HIDE DEF f
<1>2. ASSUME NEW s \in SUBSET S, \A t \in SUBSET s : t # s => t \in Good
      PROVE  SumFunctionOnSet(f, s) = 0
  <2>1. SumFunctionOnSet(f, s) =
             IF s = {} THEN 0 ELSE f[Pick(s)] + SumFunctionOnSet(f, s \ {Pick(s)})
    BY FS_Subset, SumUnfolds
  <2>2. s # {} => Pick(s) \in s
    BY DEF Pick
  <2>3. s # {} => SumFunctionOnSet(f, s \ {Pick(s)}) = 0
    BY <1>2, <2>2
  <2> QED BY <1>1, <2>1, <2>2, <2>3
<1>3. \A s \in SUBSET S : (\A t \in SUBSET s : t # s => t \in Good) => s \in Good
  BY <1>2
<1>4. S \in Good
  <2> HIDE DEF Good
  <2> QED BY <1>3, SetInduction
<1> QED BY <1>4 DEF f

\* A sum is taken apart along disjoint sets.
LEMMA SumOfUnion ==
    ASSUME NEW S, IsFiniteSet(S), NEW T, IsFiniteSet(T), S \cap T = {},
           NEW f, \A x \in S \cup T : f[x] \in Int
    PROVE  SumFunctionOnSet(f, S \cup T) = SumFunctionOnSet(f, S) + SumFunctionOnSet(f, T)
<1> DEFINE Good == { s \in SUBSET S : SumFunctionOnSet(f, s \cup T) =
                                 SumFunctionOnSet(f, s) + SumFunctionOnSet(f, T) }
<1>t. SumFunctionOnSet(f, T) \in Int
  BY SumIsInt
<1>1. ASSUME NEW s \in SUBSET S, \A t \in SUBSET s : t # s => t \in Good
      PROVE  SumFunctionOnSet(f, s \cup T) =
                SumFunctionOnSet(f, s) + SumFunctionOnSet(f, T)
  <2>1. CASE s = {}
    <3>1. s \cup T = T
      BY <2>1
    <3> QED BY <2>1, <3>1, <1>t, SumOfNone
  <2>2. CASE s # {}
    <3>1. PICK x \in s : TRUE
      BY <2>2
    <3>2. IsFiniteSet(s) /\ IsFiniteSet(s \cup T)
      BY FS_Subset, FS_Union
    <3> DEFINE U == s \cup T
    <3>3. SumFunctionOnSet(f, s) = f[x] + SumFunctionOnSet(f, s \ {x})
      BY <3>1, <3>2, SumTakesAny
    <3>4. SumFunctionOnSet(f, U) = f[x] + SumFunctionOnSet(f, U \ {x})
      <4>1. IsFiniteSet(U) /\ (\A y \in U : f[y] \in Int) /\ x \in U
        BY <3>1, <3>2
      <4> HIDE DEF U
      <4> QED BY <4>1, SumTakesAny
    <3>5. U \ {x} = (s \ {x}) \cup T
      BY <3>1
    <3>6. s \ {x} \in Good
      BY <1>1, <3>1
    <3>7. SumFunctionOnSet(f, s \ {x}) \in Int /\ f[x] \in Int
      BY <3>1, SumIsInt
    <3>8. SumFunctionOnSet(f, (s \ {x}) \cup T) =
              SumFunctionOnSet(f, s \ {x}) + SumFunctionOnSet(f, T)
      BY <3>6
    <3>9. SumFunctionOnSet(f, U) =
              f[x] + (SumFunctionOnSet(f, s \ {x}) + SumFunctionOnSet(f, T))
      BY <3>4, <3>5, <3>8
    <3> HIDE DEF U
    <3>10. SumFunctionOnSet(f, U) = SumFunctionOnSet(f, s) + SumFunctionOnSet(f, T)
      BY <1>t, <3>3, <3>7, <3>9
    <3> QED BY <3>10 DEF U
  <2> QED BY <2>1, <2>2
<1>2. \A s \in SUBSET S : (\A t \in SUBSET s : t # s => t \in Good) => s \in Good
  BY <1>1
<1>3. S \in Good
  <2> HIDE DEF Good
  <2> QED BY <1>2, SetInduction
<1> QED BY <1>3

\* What is left when a part is taken away.
LEMMA SumOfPart ==
    ASSUME NEW S, IsFiniteSet(S), NEW T \in SUBSET S, NEW f, \A x \in S : f[x] \in Int
    PROVE  SumFunctionOnSet(f, S \ T) = SumFunctionOnSet(f, S) - SumFunctionOnSet(f, T)
<1>1. IsFiniteSet(T) /\ IsFiniteSet(S \ T) /\ T \cap (S \ T) = {} /\ T \cup (S \ T) = S
  BY FS_Subset
<1>2. SumFunctionOnSet(f, S) = SumFunctionOnSet(f, T) + SumFunctionOnSet(f, S \ T)
  <2> DEFINE R == S \ T
  <2>1. SumFunctionOnSet(f, T \cup R) = SumFunctionOnSet(f, T) + SumFunctionOnSet(f, R)
    <3>1. /\ \A x \in T \cup R : f[x] \in Int
          /\ IsFiniteSet(T) /\ IsFiniteSet(R) /\ T \cap R = {}
      BY <1>1
    <3> HIDE DEF R
    <3> QED BY <3>1, SumOfUnion
  <2> QED BY <1>1, <2>1
<1>3. SumFunctionOnSet(f, T) \in Int /\ SumFunctionOnSet(f, S \ T) \in Int
  BY SumIsInt
<1> QED BY <1>2, <1>3

\* Two sets that overlap count what they share once.
LEMMA SumOfCover ==
    ASSUME NEW S, IsFiniteSet(S), NEW T, IsFiniteSet(T),
           NEW f, \A x \in S \cup T : f[x] \in Nat
    PROVE  SumFunctionOnSet(f, S \cup T) <= SumFunctionOnSet(f, S) + SumFunctionOnSet(f, T)
<1> DEFINE R == T \ S
           C == S \cap T
<1>1. IsFiniteSet(R) /\ IsFiniteSet(C) /\ S \cup T = S \cup R /\ S \cap R = {} /\ R = T \ C
  BY FS_Subset
<1>2. SumFunctionOnSet(f, S \cup R) = SumFunctionOnSet(f, S) + SumFunctionOnSet(f, R)
  <2>1. /\ \A x \in S \cup R : f[x] \in Int
        /\ IsFiniteSet(R) /\ S \cap R = {}
    BY <1>1
  <2> HIDE DEF R
  <2> QED BY <2>1, SumOfUnion
<1>3. SumFunctionOnSet(f, T \ C) = SumFunctionOnSet(f, T) - SumFunctionOnSet(f, C)
  <2>1. C \in SUBSET T /\ \A x \in T : f[x] \in Int
    OBVIOUS
  <2> HIDE DEF C
  <2> QED BY <2>1, SumOfPart
<1>4. /\ SumFunctionOnSet(f, S) \in Nat
      /\ SumFunctionOnSet(f, T) \in Nat
      /\ SumFunctionOnSet(f, C) \in Nat
  BY <1>1, SumIsNat
<1>5. SumFunctionOnSet(f, S \cup T) = SumFunctionOnSet(f, S) + SumFunctionOnSet(f, R)
  BY <1>1, <1>2
<1>6. SumFunctionOnSet(f, R) = SumFunctionOnSet(f, T) - SumFunctionOnSet(f, C)
  BY <1>1, <1>3
<1> HIDE DEF R, C
<1> QED BY <1>4, <1>5, <1>6

\* Sums over intervals, from the top.
LEMMA SumToNext ==
    ASSUME NEW a \in Int, NEW n \in Int, a <= n + 1,
           NEW f, \A i \in a..(n + 1) : f[i] \in Int
    PROVE  SumFunctionOnSet(f, a..(n + 1)) = SumFunctionOnSet(f, a..n) + f[n + 1]
<1> DEFINE S == a..(n + 1)
<1>1. IsFiniteSet(S) /\ n + 1 \in S /\ S \ {n + 1} = a..n /\ a..n \subseteq S
  BY FS_Interval
<1>2. SumFunctionOnSet(f, S) = f[n + 1] + SumFunctionOnSet(f, S \ {n + 1})
  <2> HIDE DEF S
  <2> QED BY <1>1, SumTakesAny
<1>3. SumFunctionOnSet(f, a..n) \in Int
  <2>1. \A i \in S : f[i] \in Int
    OBVIOUS
  <2> HIDE DEF S
  <2> QED BY <1>1, <2>1, SumIsInt
<1>4. f[n + 1] \in Int
  BY <1>1
<1>5. SumFunctionOnSet(f, S) = f[n + 1] + SumFunctionOnSet(f, a..n)
  BY <1>1, <1>2
<1> QED BY <1>3, <1>4, <1>5

\* A sum over the image of an interval under an injection.
LEMMA SumOfImage ==
    ASSUME NEW n \in Nat, NEW h, NEW f, NEW g,
           \A i, j \in 1..n : h[i] = h[j] => i = j,
           \A i \in 1..n : g[i] = f[h[i]] /\ f[h[i]] \in Int
    PROVE  /\ IsFiniteSet({ h[i] : i \in 1..n })
           /\ SumFunctionOnSet(f, { h[i] : i \in 1..n }) = SumFunctionOnSet(g, 1..n)
<1> DEFINE Image(k) == { h[i] : i \in 1..k }
           Right(k) == /\ IsFiniteSet(Image(k))
                       /\ SumFunctionOnSet(f, Image(k)) = SumFunctionOnSet(g, 1..k)
           Good == { k \in Nat : k <= n => Right(k) }
<1>1. 0 \in Good
  <2>1. Image(0) = {} /\ 1..0 = {}
    OBVIOUS
  <2> QED BY <2>1, SumOfNone, FS_EmptySet
<1>2. ASSUME NEW k \in Nat, k \in Good PROVE k + 1 \in Good
  <2> SUFFICES ASSUME k + 1 <= n PROVE Right(k + 1)
    OBVIOUS
  <2> DEFINE I == Image(k)
             J == Image(k + 1)
             x == h[k + 1]
  <2>1. IsFiniteSet(I) /\ SumFunctionOnSet(f, I) = SumFunctionOnSet(g, 1..k)
    BY <1>2
  <2>2. J = I \cup {x} /\ x \in J /\ J \ {x} = I /\ \A y \in J : f[y] \in Int
    <3>1. 1..(k + 1) = (1..k) \cup {k + 1} /\ k + 1 \in 1..n /\ 1..(k + 1) \subseteq 1..n
      OBVIOUS
    <3>2. x \notin I
      BY <3>1
    <3> QED BY <3>1, <3>2
  <2>3. IsFiniteSet(J)
    <3>1. IsFiniteSet(I) /\ J = I \cup {x}
      BY <2>1, <2>2
    <3> HIDE DEF I, J, x
    <3> QED BY <3>1, FS_AddElement
  <2>4. SumFunctionOnSet(f, J) = f[x] + SumFunctionOnSet(f, J \ {x})
    <3> HIDE DEF J, x
    <3> QED BY <2>2, <2>3, SumTakesAny
  <2>5. SumFunctionOnSet(g, 1..(k + 1)) = SumFunctionOnSet(g, 1..k) + g[k + 1]
    BY SumToNext
  <2>6. SumFunctionOnSet(g, 1..k) \in Int /\ g[k + 1] = f[x] /\ f[x] \in Int
    <3>1. IsFiniteSet(1..k) /\ \A i \in 1..k : g[i] \in Int
      BY FS_Interval
    <3> QED BY <3>1, SumIsInt
  <2>7. SumFunctionOnSet(f, J) = f[x] + SumFunctionOnSet(f, I)
    BY <2>2, <2>4
  <2>8. SumFunctionOnSet(f, J) = SumFunctionOnSet(g, 1..(k + 1))
    BY <2>1, <2>5, <2>6, <2>7
  <2> QED BY <2>3, <2>8
<1>3. \A k \in Nat : k \in Good
  <2> HIDE DEF Good
  <2> QED BY <1>1, <1>2, IntervalInduction
<1>4. n \in Good
  <2> HIDE DEF Good
  <2> QED BY <1>3
<1> QED BY <1>4

\* A sum of equal numbers.
LEMMA SumOfEqual ==
    ASSUME NEW a \in Int, NEW z \in Int, a <= z + 1, NEW c \in Int,
           NEW f, \A i \in a..z : f[i] = c
    PROVE  SumFunctionOnSet(f, a..z) = c * ((z + 1) - a)
<1> DEFINE n == (z + 1) - a
           Good == { k \in Nat : k <= n => SumFunctionOnSet(f, a..((a + k) - 1)) = c * k }
<1>1. 0 \in Good
  <2>1. a..((a + 0) - 1) = {} /\ c * 0 = 0
    OBVIOUS
  <2> QED BY <2>1, SumOfNone
<1>2. ASSUME NEW k \in Nat, k \in Good PROVE k + 1 \in Good
  <2> SUFFICES ASSUME k + 1 <= n
               PROVE  SumFunctionOnSet(f, a..((a + (k + 1)) - 1)) = c * (k + 1)
    OBVIOUS
  <2> DEFINE m == (a + k) - 1
  <2>1. m \in Int /\ a <= m + 1 /\ (a + (k + 1)) - 1 = m + 1
    OBVIOUS
  <2>2. \A i \in a..(m + 1) : f[i] = c /\ f[i] \in Int
    OBVIOUS
  <2>3. SumFunctionOnSet(f, a..m) = c * k
    BY <1>2
  <2> HIDE DEF m
  <2>4. SumFunctionOnSet(f, a..(m + 1)) = SumFunctionOnSet(f, a..m) + f[m + 1]
    BY <2>1, <2>2, SumToNext
  <2>5. f[m + 1] = c
    BY <2>1, <2>2
  <2>6. c * k + c = c * (k + 1)
    OBVIOUS
  <2> QED BY <2>1, <2>3, <2>4, <2>5, <2>6
<1>3. \A k \in Nat : k \in Good
  <2> HIDE DEF Good
  <2> QED BY <1>1, <1>2, IntervalInduction
<1>4. n \in Nat /\ (a + n) - 1 = z
  OBVIOUS
<1>5. SumFunctionOnSet(f, a..((a + n) - 1)) = c * n
  <2>1. n \in Good
    <3> HIDE DEF Good, n
    <3> QED BY <1>3, <1>4
  <2> HIDE DEF n
  <2> QED BY <1>4, <2>1
<1> QED BY <1>4, <1>5

-----------------------------------------------------------------------------
\* A product of naturals grows with its first factor.
LEMMA ProductMonotone ==
    ASSUME NEW a \in Nat, NEW b \in Nat, NEW c \in Nat, a <= b
    PROVE  c * a <= c * b /\ a * c <= b * c
<1>1. c * a <= c * b /\ a * c <= b * c
  BY Z3
<1> QED BY <1>1

\* The inductive strengthening of SupplyWithinCap.
CapInv ==
    /\ IssueTypeOK
    /\ total + 2 * (schedule.halving_interval * reward) <= schedule.maximum_supply

\* Halving gives up at least what one more epoch could add.
LEMMA HalvingPays ==
    ASSUME NEW r \in Nat, NEW k \in Nat
    PROVE  /\ r \div 2 \in Nat
           /\ k * r + 2 * (k * (r \div 2)) <= 2 * (k * r)
<1>1. r \div 2 \in Nat /\ 2 * (r \div 2) <= r
  OBVIOUS
<1>2. k * (2 * (r \div 2)) <= k * r
  BY <1>1, ProductMonotone
<1>3. k * (2 * (r \div 2)) = 2 * (k * (r \div 2))
  BY <1>1, Z3
<1>4. k * r \in Int /\ k * (r \div 2) \in Int
  BY <1>1
<1> QED BY <1>1, <1>2, <1>3, <1>4

\* The loop starts within the cap.
LEMMA InitEstablishesCap == IssueInit => CapInv
<1> SUFFICES ASSUME IssueInit PROVE CapInv
  OBVIOUS
<1>1. IsSchedule(schedule) /\ height \in Nat
  BY SchedulesAssumption, HeightsAssumption DEF IssueInit
<1> QED BY <1>1 DEF IssueInit, CapInv, IssueTypeOK, IsSchedule

\* An epoch issues no more than its halving gives up.
LEMMA StepPreservesCap == CapInv /\ [IssueNext]_issueVars => CapInv'
<1> SUFFICES ASSUME CapInv, [IssueNext]_issueVars PROVE CapInv'
  OBVIOUS
<1> DEFINE I == schedule.halving_interval
           E == EpochBlocks
<1>0. IsSchedule(schedule) /\ I \in Nat /\ I # 0
  BY SchedulesAssumption DEF CapInv, IssueTypeOK, IsSchedule
<1>1. CASE IssueEpoch
  <2>1. E \in Nat /\ E <= I /\ E <= remaining_blocks
    BY <1>0 DEF EpochBlocks, CapInv, IssueTypeOK
  <2>2. reward \in Nat /\ total \in Nat /\ remaining_blocks \in Nat /\ halving_count \in Nat
    BY DEF CapInv, IssueTypeOK
  <2>3. reward * E <= I * reward /\ reward * E \in Nat
    <3>1. E * reward <= I * reward
      BY <1>0, <2>1, <2>2, ProductMonotone
    <3>2. reward * E = E * reward /\ reward * E \in Nat
      BY <2>1, <2>2
    <3> QED BY <3>1, <3>2
  <2>4. reward \div 2 \in Nat /\ I * reward + 2 * (I * (reward \div 2)) <= 2 * (I * reward)
    BY <1>0, <2>2, HalvingPays
  <2>5. IssueTypeOK'
    BY <1>1, <2>1, <2>2, <2>3, <2>4 DEF IssueEpoch, IssueTypeOK, CapInv
  <2>6. total' + 2 * (schedule'.halving_interval * reward') <= schedule'.maximum_supply
    <3>1. I * reward \in Int /\ I * (reward \div 2) \in Int /\ schedule.maximum_supply \in Nat
      BY <1>0, <2>2, <2>4 DEF IsSchedule
    <3>2. total + 2 * (I * reward) <= schedule.maximum_supply
      BY DEF CapInv
    <3>3. (total + reward * E) + 2 * (I * (reward \div 2)) <= schedule.maximum_supply
      BY <2>2, <2>3, <2>4, <3>1, <3>2
    <3>4. /\ schedule' = schedule /\ total' = total + reward * E
          /\ reward' = reward \div 2
      BY <1>1 DEF IssueEpoch
    <3> QED BY <3>3, <3>4
  <2> QED BY <2>5, <2>6 DEF CapInv
<1>2. CASE UNCHANGED issueVars
  BY <1>2 DEF issueVars, CapInv, IssueTypeOK
<1> QED BY <1>1, <1>2 DEF IssueNext

\* issued_through never leaves its types: no subtraction goes below zero.
THEOREM IssueTypeCorrect == IssueSpec => []IssueTypeOK
<1>1. CapInv => IssueTypeOK
  BY DEF CapInv
<1> QED BY <1>1, InitEstablishesCap, StepPreservesCap, PTL DEF IssueSpec

\* issued_through never exceeds the schedule's maximum supply, for every
\* interval, initial reward, number of halvings and height: the cap that
\* design.md promises and that protocol.rs tests for the default schedule.
THEOREM SupplyCap == IssueSpec => []SupplyWithinCap
<1>1. CapInv => SupplyWithinCap
  <2> SUFFICES ASSUME CapInv PROVE SupplyWithinCap
    OBVIOUS
  <2>1. IsSchedule(schedule) /\ total \in Nat /\ reward \in Nat
    BY SchedulesAssumption DEF CapInv, IssueTypeOK
  <2>2. schedule.halving_interval * reward \in Nat
    BY <2>1 DEF IsSchedule
  <2> QED BY <2>1, <2>2 DEF CapInv, SupplyWithinCap, IsSchedule
<1> QED BY <1>1, InitEstablishesCap, StepPreservesCap, PTL DEF IssueSpec

-----------------------------------------------------------------------------
\* The function ShiftRight(r, n) is read off.
Shifts(r, g, n) == g = [ i \in 0..n |-> IF i = 0 THEN r ELSE g[i - 1] \div 2 ]

\* There is such a function, for every number of places.
LEMMA ShiftExists ==
    ASSUME NEW r
    PROVE  \A n \in Nat : \E g : Shifts(r, g, n)
<1> DEFINE Good == { n \in Nat : \E g : Shifts(r, g, n) }
<1>1. 0 \in Good
  <2> DEFINE g == [ i \in 0..0 |-> r ]
  <2>1. Shifts(r, g, 0)
    BY DEF Shifts
  <2> HIDE DEF g
  <2> QED BY <2>1
<1>2. ASSUME NEW n \in Nat, n \in Good PROVE n + 1 \in Good
  <2>1. PICK g : Shifts(r, g, n)
    BY <1>2
  <2> DEFINE h == [ i \in 0..(n + 1) |-> IF i = 0 THEN r ELSE g[i - 1] \div 2 ]
  <2>2. \A i \in 0..n : h[i] = g[i]
    <3>1. \A i \in 0..n : g[i] = IF i = 0 THEN r ELSE g[i - 1] \div 2
      BY <2>1 DEF Shifts
    <3>2. \A i \in 0..n : h[i] = IF i = 0 THEN r ELSE g[i - 1] \div 2
      OBVIOUS
    <3> QED BY <3>1, <3>2
  <2>3. Shifts(r, h, n + 1)
    <3>1. \A i \in 0..(n + 1) : i # 0 => i - 1 \in 0..n
      OBVIOUS
    <3> QED BY <2>2, <3>1 DEF Shifts
  <2> HIDE DEF h
  <2> QED BY <2>3
<1> HIDE DEF Good
<1>3. \A n \in Nat : n \in Good
  BY <1>1, <1>2, IntervalInduction
<1> QED BY <1>3 DEF Good

\* A shift by no place, and by one place more.
LEMMA ShiftUnfolds ==
    ASSUME NEW r
    PROVE  /\ ShiftRight(r, 0) = r
           /\ \A n \in Nat : ShiftRight(r, n + 1) = ShiftRight(r, n) \div 2
<1> DEFINE sol(n) == CHOOSE g : Shifts(r, g, n)
<1>1. ASSUME NEW n \in Nat PROVE Shifts(r, sol(n), n) /\ ShiftRight(r, n) = sol(n)[n]
  <2>1. ShiftRight(r, n) = sol(n)[n]
    BY DEF ShiftRight, Shifts
  <2> QED BY <2>1, ShiftExists
<1> HIDE DEF sol
<1>2. ASSUME NEW n \in Nat
      PROVE  \A i \in 0..n : sol(n)[i] = IF i = 0 THEN r ELSE sol(n)[i - 1] \div 2
  <2> DEFINE g == sol(n)
  <2>1. Shifts(r, g, n)
    BY <1>1
  <2> HIDE DEF g
  <2>2. \A i \in 0..n : g[i] = IF i = 0 THEN r ELSE g[i - 1] \div 2
    BY <2>1 DEF Shifts
  <2> QED BY <2>2 DEF g
<1>3. ASSUME NEW n \in Nat PROVE sol(n + 1)[n] = sol(n)[n]
  <2> DEFINE Good == { k \in Nat : k <= n => sol(n + 1)[k] = sol(n)[k] }
  <2>1. 0 \in Good
    BY <1>2
  <2>2. ASSUME NEW k \in Nat, k \in Good PROVE k + 1 \in Good
    <3> SUFFICES ASSUME k + 1 <= n PROVE sol(n + 1)[k + 1] = sol(n)[k + 1]
      OBVIOUS
    <3>1. /\ n + 1 \in Nat /\ k + 1 \in 0..n /\ k + 1 \in 0..(n + 1)
          /\ k + 1 # 0 /\ (k + 1) - 1 = k
      OBVIOUS
    <3>2. sol(n + 1)[k + 1] = sol(n + 1)[k] \div 2 /\ sol(n)[k + 1] = sol(n)[k] \div 2
      BY <1>2, <3>1
    <3> QED BY <2>2, <3>2
  <2>3. n \in Good
    <3> HIDE DEF Good
    <3> QED BY <2>1, <2>2, IntervalInduction
  <2> QED BY <2>3
<1>4. ShiftRight(r, 0) = r
  BY <1>1, <1>2
<1>5. ASSUME NEW n \in Nat PROVE ShiftRight(r, n + 1) = ShiftRight(r, n) \div 2
  <2>1. /\ n + 1 \in Nat /\ n + 1 \in 0..(n + 1) /\ n + 1 # 0 /\ (n + 1) - 1 = n
    OBVIOUS
  <2>2. sol(n + 1)[n + 1] = sol(n + 1)[n] \div 2
    BY <1>2, <2>1
  <2> QED BY <1>1, <1>3, <2>1, <2>2
<1> QED BY <1>4, <1>5

\* A shifted reward is a natural.
LEMMA ShiftIsNat ==
    ASSUME NEW r \in Nat
    PROVE  \A n \in Nat : ShiftRight(r, n) \in Nat
<1> DEFINE Good == { n \in Nat : ShiftRight(r, n) \in Nat }
<1>1. 0 \in Good
  BY ShiftUnfolds
<1>2. ASSUME NEW n \in Nat, n \in Good PROVE n + 1 \in Good
  <2>1. ShiftRight(r, n + 1) = ShiftRight(r, n) \div 2
    BY ShiftUnfolds
  <2> QED BY <1>2, <2>1
<1>3. \A n \in Nat : n \in Good
  <2> HIDE DEF Good
  <2> QED BY <1>1, <1>2, IntervalInduction
<1> QED BY <1>3

\* The reward of a height is a natural.
LEMMA RewardIsNat ==
    ASSUME NEW s, s.halving_interval \in Nat \ {0}, s.initial_reward \in Nat,
           s.max_halvings \in Nat, NEW h \in Nat
    PROVE  BlockReward(s, h) \in Nat
<1>1. h \div s.halving_interval \in Nat
  BY Z3
<1> QED BY <1>1, ShiftIsNat DEF BlockReward

\* The heights of an epoch earn the same.
LEMMA RewardOfEpoch ==
    ASSUME NEW s, s.halving_interval \in Nat \ {0}, NEW k \in Nat,
           NEW h \in Nat, k * s.halving_interval <= h, h < (k + 1) * s.halving_interval
    PROVE  BlockReward(s, h) =
             IF k >= s.max_halvings THEN 0 ELSE ShiftRight(s.initial_reward, k)
<1> DEFINE I == s.halving_interval
<1>1. h \div I = k
  <2>1. \A i \in Nat \ {0} : k * i <= h /\ h < (k + 1) * i => h \div i = k
    BY Z3
  <2> QED BY <2>1
<1> QED BY <1>1 DEF BlockReward

\* A reward that has been shifted away stays away.
LEMMA ShiftStaysZero ==
    ASSUME NEW r \in Nat, NEW k \in Nat, ShiftRight(r, k) = 0
    PROVE  \A n \in Nat : ShiftRight(r, k + n) = 0
<1> DEFINE Good == { n \in Nat : ShiftRight(r, k + n) = 0 }
<1>1. 0 \in Good
  OBVIOUS
<1>2. ASSUME NEW n \in Nat, n \in Good PROVE n + 1 \in Good
  <2>1. k + n \in Nat /\ k + (n + 1) = (k + n) + 1
    OBVIOUS
  <2>2. ShiftRight(r, (k + n) + 1) = ShiftRight(r, k + n) \div 2
    BY <2>1, ShiftUnfolds
  <2>3. ShiftRight(r, k + (n + 1)) = 0
    BY <1>2, <2>1, <2>2
  <2> QED BY <2>3
<1>3. \A n \in Nat : n \in Good
  <2> HIDE DEF Good
  <2> QED BY <1>1, <1>2, IntervalInduction
<1> QED BY <1>3

\* From an epoch whose reward is zero, or that lies past the last halving, no
\* height earns anything.
LEMMA RewardsEnd ==
    ASSUME NEW s, s.halving_interval \in Nat \ {0}, s.initial_reward \in Nat,
           s.max_halvings \in Nat, NEW k \in Nat,
           k >= s.max_halvings \/ ShiftRight(s.initial_reward, k) = 0,
           NEW h \in Nat, k * s.halving_interval <= h
    PROVE  BlockReward(s, h) = 0
<1> DEFINE I == s.halving_interval
           q == h \div I
<1>1. q \in Nat /\ q >= k
  <2>1. \A i \in Nat \ {0} : k * i <= h => h \div i \in Nat /\ h \div i >= k
    BY Z3
  <2> QED BY <2>1
<1>2. CASE k >= s.max_halvings
  <2>1. q >= s.max_halvings
    BY <1>1, <1>2
  <2> QED BY <2>1 DEF BlockReward
<1>3. CASE ShiftRight(s.initial_reward, k) = 0
  <2> DEFINE n == q - k
  <2>1. n \in Nat /\ k + n = q
    BY <1>1
  <2> HIDE DEF n
  <2>2. ShiftRight(s.initial_reward, k + n) = 0
    BY <1>3, <2>1, ShiftStaysZero
  <2>3. ShiftRight(s.initial_reward, q) = 0
    BY <2>1, <2>2
  <2> QED BY <2>3 DEF BlockReward
<1> QED BY <1>2, <1>3

-----------------------------------------------------------------------------
\* The reward of every height, as one function.
RewardAt(s) == [ h \in Nat |-> BlockReward(s, h) ]

\* What the proofs need of a schedule.
LEMMA ScheduleTypes ==
    ASSUME NEW s, IsSchedule(s)
    PROVE  /\ s.halving_interval \in Nat \ {0} /\ s.initial_reward \in Nat
           /\ s.max_halvings \in Nat
           /\ \A h \in Nat : RewardAt(s)[h] \in Nat /\ RewardAt(s)[h] = BlockReward(s, h)
BY RewardIsNat DEF IsSchedule, RewardAt

\* The sum of the rewards of a range of heights is a natural.
LEMMA RewardsAreSummed ==
    ASSUME NEW s, IsSchedule(s), NEW a \in Nat, NEW n \in Int
    PROVE  /\ SumFunction([ h \in a..n |-> BlockReward(s, h) ])
                = SumFunctionOnSet(RewardAt(s), a..n)
           /\ SumFunctionOnSet(RewardAt(s), a..n) \in Nat
<1> DEFINE S == a..n
           f == [ h \in S |-> BlockReward(s, h) ]
<1>1. IsFiniteSet(S) /\ S \subseteq Nat
  BY FS_Interval
<1>2. \A h \in S : f[h] \in Int /\ f[h] = RewardAt(s)[h] /\ RewardAt(s)[h] \in Nat
  BY <1>1, ScheduleTypes
<1>3. DOMAIN f = S
  OBVIOUS
<1> HIDE DEF f, S
<1>4. SumFunctionOnSet(f, S) = SumFunctionOnSet(RewardAt(s), S)
  BY <1>1, <1>2, SumOfAgreeing
<1>5. SumFunctionOnSet(RewardAt(s), S) \in Nat
  BY <1>1, <1>2, SumIsNat
<1>6. SumFunction(f) = SumFunctionOnSet(RewardAt(s), S)
  BY <1>3, <1>4 DEF SumFunction
<1> QED BY <1>5, <1>6 DEF f, S

\* Two ranges of heights that adjoin.
LEMMA IntervalsAdjoin ==
    ASSUME NEW s, IsSchedule(s), NEW a \in Nat, NEW z \in Int, a <= z + 1
    PROVE  SumFunctionOnSet(RewardAt(s), 0..z) =
             SumFunctionOnSet(RewardAt(s), 0..(a - 1)) + SumFunctionOnSet(RewardAt(s), a..z)
<1> DEFINE S == 0..(a - 1)
           T == a..z
<1>1. IsFiniteSet(S) /\ IsFiniteSet(T)
  BY FS_Interval
<1>2. S \cap T = {} /\ S \cup T = 0..z /\ S \cup T \subseteq Nat
  OBVIOUS
<1>3. \A x \in S \cup T : RewardAt(s)[x] \in Int
  BY <1>2, ScheduleTypes
<1> HIDE DEF S, T
<1>4. SumFunctionOnSet(RewardAt(s), S \cup T) =
          SumFunctionOnSet(RewardAt(s), S) + SumFunctionOnSet(RewardAt(s), T)
  BY <1>1, <1>2, <1>3, SumOfUnion
<1> QED BY <1>2, <1>4 DEF S, T

\* Heights that all earn c.
LEMMA EqualRewards ==
    ASSUME NEW s, IsSchedule(s), NEW a \in Nat, NEW z \in Int, a <= z + 1,
           NEW c \in Nat, \A h \in a..z : BlockReward(s, h) = c
    PROVE  SumFunctionOnSet(RewardAt(s), a..z) = c * ((z + 1) - a)
<1>1. \A h \in a..z : RewardAt(s)[h] = c
  <2>1. \A h \in a..z : h \in Nat
    OBVIOUS
  <2> QED BY <2>1, ScheduleTypes
<1> QED BY <1>1, SumOfEqual

-----------------------------------------------------------------------------
\* What the loop has done before epoch halving_count.
IssuedInv ==
    /\ IssueTypeOK
    /\ remaining_blocks <= height + 1
    /\ remaining_blocks > 0 =>
         (height + 1) - remaining_blocks = halving_count * schedule.halving_interval
    /\ reward = ShiftRight(schedule.initial_reward, halving_count)
    /\ total = SumFunctionOnSet(RewardAt(schedule), 0..(height - remaining_blocks))

\* Nothing has been issued before the first epoch.
LEMMA InitEstablishesIssued == IssueInit => IssuedInv
<1> SUFFICES ASSUME IssueInit PROVE IssuedInv
  OBVIOUS
<1>1. IsSchedule(schedule) /\ height \in Nat
  BY SchedulesAssumption, HeightsAssumption DEF IssueInit
<1>2. IssueTypeOK
  BY <1>1 DEF IssueInit, IssueTypeOK, IsSchedule
<1>3. reward = ShiftRight(schedule.initial_reward, halving_count)
  BY ShiftUnfolds DEF IssueInit
<1>4. total = SumFunctionOnSet(RewardAt(schedule), 0..(height - remaining_blocks))
  <2>1. 0..(height - remaining_blocks) = {}
    BY <1>1 DEF IssueInit
  <2> QED BY <2>1, SumOfNone DEF IssueInit
<1>5. 0 * schedule.halving_interval = 0
  BY <1>1 DEF IsSchedule
<1> QED BY <1>1, <1>2, <1>3, <1>4, <1>5 DEF IssueInit, IssuedInv

\* An epoch issues the rewards of the heights it takes.
LEMMA StepPreservesIssued == IssuedInv /\ [IssueNext]_issueVars => IssuedInv'
<1> SUFFICES ASSUME IssuedInv, [IssueNext]_issueVars PROVE IssuedInv'
  OBVIOUS
<1> DEFINE I == schedule.halving_interval
           E == EpochBlocks
           k == halving_count
           done == (height + 1) - remaining_blocks
<1>0. /\ IsSchedule(schedule) /\ I \in Nat \ {0} /\ height \in Nat
      /\ reward \in Nat /\ total \in Nat /\ remaining_blocks \in Nat /\ k \in Nat
  BY SchedulesAssumption, HeightsAssumption DEF IssuedInv, IssueTypeOK, IsSchedule
<1>1. CASE IssueEpoch
  <2>1. /\ E \in Nat /\ E <= I /\ E <= remaining_blocks
        /\ E # remaining_blocks => E = I
    BY <1>0 DEF EpochBlocks
  <2>2. done \in Nat /\ done = k * I
    BY <1>0, <1>1 DEF IssueEpoch, Running, IssuedInv
  <2>3. (k + 1) * I = k * I + I
    BY <1>0
  <2> DEFINE z == (done + E) - 1
  <2>4. ASSUME NEW h \in done..z PROVE BlockReward(schedule, h) = reward
    <3>1. h \in Nat /\ k * I <= h /\ h < (k + 1) * I
      BY <1>0, <2>1, <2>2, <2>3
    <3>2. ~ (k >= schedule.max_halvings)
      BY <1>0, <1>1 DEF IssueEpoch, Running, IsSchedule
    <3> QED BY <1>0, <3>1, <3>2, RewardOfEpoch DEF IssuedInv
  <2>5. total' = SumFunctionOnSet(RewardAt(schedule), 0..z)
    <3>1. z \in Int /\ done <= z + 1 /\ (z + 1) - done = E
      BY <1>0, <2>1, <2>2
    <3> HIDE DEF E, done, z
    <3>2. SumFunctionOnSet(RewardAt(schedule), done..z) = reward * E
      <4>1. \A h \in done..z : BlockReward(schedule, h) = reward
        BY <2>4
      <4> QED BY <1>0, <2>2, <3>1, <4>1, EqualRewards
    <3>3. SumFunctionOnSet(RewardAt(schedule), 0..z) =
             SumFunctionOnSet(RewardAt(schedule), 0..(done - 1)) + reward * E
      <4>1. SumFunctionOnSet(RewardAt(schedule), 0..z) =
               SumFunctionOnSet(RewardAt(schedule), 0..(done - 1))
                 + SumFunctionOnSet(RewardAt(schedule), done..z)
        BY <1>0, <2>2, <3>1, IntervalsAdjoin
      <4> QED BY <3>2, <4>1
    <3>4. total = SumFunctionOnSet(RewardAt(schedule), 0..(done - 1))
      <4>1. done - 1 = height - remaining_blocks
        BY <1>0 DEF done
      <4> QED BY <4>1 DEF IssuedInv
    <3> QED BY <1>1, <3>3, <3>4 DEF IssueEpoch, E
  <2>6. /\ schedule' = schedule /\ height' = height /\ k' = k + 1
        /\ remaining_blocks' = remaining_blocks - E
        /\ reward' = reward \div 2
    BY <1>1 DEF IssueEpoch
  <2>7. height' - remaining_blocks' = z
    BY <1>0, <2>1, <2>6
  <2>8. total' = SumFunctionOnSet(RewardAt(schedule'), 0..(height' - remaining_blocks'))
    <3> HIDE DEF z
    <3> QED BY <2>5, <2>6, <2>7
  <2>9. reward' = ShiftRight(schedule'.initial_reward, k')
    BY <1>0, <2>6, ShiftUnfolds DEF IssuedInv
  <2>10. reward * E \in Nat /\ reward \div 2 \in Nat
    BY <1>0, <2>1
  <2>11. IssueTypeOK'
    <3>1. schedule \in Schedules /\ height \in Heights
      BY DEF IssuedInv, IssueTypeOK
    <3>2. total' = total + reward * E
      BY <1>1 DEF IssueEpoch
    <3>3. total' \in Nat /\ reward' \in Nat /\ k' \in Nat /\ remaining_blocks' \in Nat
      <4> HIDE DEF E
      <4> QED BY <1>0, <2>1, <2>6, <2>10, <3>2
    <3> QED BY <2>6, <3>1, <3>3 DEF IssueTypeOK
  <2>12. remaining_blocks' <= height' + 1
    BY <1>0, <2>1, <2>6 DEF IssuedInv
  <2>13. remaining_blocks' > 0 => (height' + 1) - remaining_blocks' = k' * schedule'.halving_interval
    <3> SUFFICES ASSUME remaining_blocks' > 0
                 PROVE  (height' + 1) - remaining_blocks' = k' * schedule'.halving_interval
      OBVIOUS
    <3>1. E = I
      BY <1>0, <2>1, <2>6
    <3>2. (height' + 1) - remaining_blocks' = done + E
      BY <1>0, <2>1, <2>6
    <3>3. k' * schedule'.halving_interval = k * I + I
      BY <2>3, <2>6
    <3> QED BY <2>2, <3>1, <3>2, <3>3
  <2> QED BY <2>8, <2>9, <2>11, <2>12, <2>13 DEF IssuedInv
<1>2. CASE UNCHANGED issueVars
  BY <1>2 DEF issueVars, IssuedInv, IssueTypeOK
<1> QED BY <1>1, <1>2 DEF IssueNext

\* issued_through(h) is the sum of block_reward over the heights 0..h, for every
\* schedule and height: the loop by epochs, with its early break, and the formula
\* by height that block validation uses are two computations of one supply.
THEOREM IssuesTheRewards == IssueSpec => []IssuedMatchesRewards
<1>1. IssuedInv => IssuedMatchesRewards
  <2> SUFFICES ASSUME IssuedInv, ~Running
               PROVE  total = SumFunction([ h \in 0..height |-> BlockReward(schedule, h) ])
    BY DEF IssuedMatchesRewards
  <2> DEFINE I == schedule.halving_interval
             k == halving_count
             done == (height + 1) - remaining_blocks
  <2>0. /\ IsSchedule(schedule) /\ I \in Nat \ {0} /\ height \in Nat
        /\ reward \in Nat /\ total \in Nat /\ remaining_blocks \in Nat /\ k \in Nat
    BY SchedulesAssumption, HeightsAssumption DEF IssuedInv, IssueTypeOK, IsSchedule
  <2>1. done \in Nat /\ done - 1 = height - remaining_blocks /\ done <= height + 1
    BY <2>0 DEF IssuedInv
  <2>2. ASSUME NEW h \in done..height PROVE BlockReward(schedule, h) = 0
    <3>1. remaining_blocks > 0 /\ h \in Nat
      BY <2>0, <2>1
    <3>2. k * I <= h
      BY <2>0, <2>1, <3>1 DEF IssuedInv
    <3>3. k >= schedule.max_halvings \/ ShiftRight(schedule.initial_reward, k) = 0
      BY <2>0, <3>1 DEF IssuedInv, Running, IsSchedule
    <3> QED BY <2>0, <3>1, <3>2, <3>3, ScheduleTypes, RewardsEnd
  <2> HIDE DEF done
  <2>4. SumFunctionOnSet(RewardAt(schedule), done..height) = 0
    <3>1. \A h \in done..height : BlockReward(schedule, h) = 0
      BY <2>2
    <3>2. SumFunctionOnSet(RewardAt(schedule), done..height) = 0 * ((height + 1) - done)
      BY <2>0, <2>1, <3>1, EqualRewards
    <3> QED BY <2>0, <2>1, <3>2
  <2>5. total = SumFunctionOnSet(RewardAt(schedule), 0..(done - 1))
    BY <2>1 DEF IssuedInv
  <2>6. SumFunctionOnSet(RewardAt(schedule), 0..height) = total + 0
    BY <2>0, <2>1, <2>4, <2>5, IntervalsAdjoin
  <2> QED BY <2>0, <2>6, RewardsAreSummed
<1> QED BY <1>1, InitEstablishesIssued, StepPreservesIssued, PTL DEF IssueSpec

-----------------------------------------------------------------------------
\* A height earns at most the reward of its epoch: less after the last halving.
LEMMA RewardBound ==
    ASSUME NEW s, IsSchedule(s), NEW k \in Nat, NEW h \in Nat,
           k * s.halving_interval <= h, h < (k + 1) * s.halving_interval
    PROVE  BlockReward(s, h) <= ShiftRight(s.initial_reward, k)
<1>1. ShiftRight(s.initial_reward, k) \in Nat
  BY ShiftIsNat DEF IsSchedule
<1>2. BlockReward(s, h) = IF k >= s.max_halvings THEN 0 ELSE ShiftRight(s.initial_reward, k)
  BY RewardOfEpoch DEF IsSchedule
<1> QED BY <1>1, <1>2

\* What is issued through height h, in epoch k, with what is left of the epoch
\* and one more interval at the epoch's reward, is within the cap.
Paid(s, k, h) ==
    /\ k * s.halving_interval <= h /\ h < (k + 1) * s.halving_interval
    /\ SumFunctionOnSet(RewardAt(s), 0..h)
         + ((((k + 1) * s.halving_interval) - 1) - h) * ShiftRight(s.initial_reward, k)
         + s.halving_interval * ShiftRight(s.initial_reward, k)
           <= 2 * (s.halving_interval * s.initial_reward)

\* The first height leaves that room, ...
LEMMA PaidAtStart == ASSUME NEW s, IsSchedule(s) PROVE Paid(s, 0, 0)
<1> DEFINE I == s.halving_interval
           r == s.initial_reward
           b == BlockReward(s, 0)
<1>0. I \in Nat \ {0} /\ r \in Nat
  BY DEF IsSchedule
<1>1. ShiftRight(r, 0) = r
  BY ShiftUnfolds
<1>2. 0 * I = 0 /\ (0 + 1) * I = I
  BY <1>0
<1>3. SumFunctionOnSet(RewardAt(s), 0..0) = b
  <2>1. \A h \in 0..0 : BlockReward(s, h) = b
    OBVIOUS
  <2>2. b \in Nat
    BY ScheduleTypes
  <2> HIDE DEF b
  <2>3. SumFunctionOnSet(RewardAt(s), 0..0) = b * ((0 + 1) - 0)
    <3>1. 0 \in Nat /\ 0 \in Int /\ 0 <= 0 + 1
      OBVIOUS
    <3> QED BY <2>1, <2>2, <3>1, EqualRewards
  <2> QED BY <2>2, <2>3
<1>4. b <= r /\ b \in Nat
  BY <1>0, <1>1, <1>2, RewardBound, ScheduleTypes
<1>5. r + (I - 1) * r + I * r = 2 * (I * r)
  BY <1>0
<1>6. (I - 1) * r \in Int /\ I * r \in Int
  BY <1>0
<1>7. ((0 + 1) * I - 1) - 0 = I - 1
  BY <1>0
<1>8. SumFunctionOnSet(RewardAt(s), 0..0) + (((0 + 1) * I - 1) - 0) * ShiftRight(r, 0)
         + I * ShiftRight(r, 0) <= 2 * (I * r)
  <2> HIDE DEF b
  <2>1. b + (I - 1) * r + I * r <= 2 * (I * r)
    BY <1>0, <1>4, <1>5, <1>6
  <2> HIDE DEF I, r
  <2> QED BY <1>1, <1>3, <1>7, <2>1
<1>9. 0 * I <= 0 /\ 0 < (0 + 1) * I
  BY <1>0
<1> QED BY <1>8, <1>9 DEF Paid

\* ... and every next one, in the same epoch or as the first of the next.
LEMMA PaidNext ==
    ASSUME NEW s, IsSchedule(s), NEW h \in Nat, \E k \in Nat : Paid(s, k, h)
    PROVE  \E k \in Nat : Paid(s, k, h + 1)
<1>1. PICK k \in Nat : Paid(s, k, h)
  OBVIOUS
<1> DEFINE I == s.halving_interval
           C == 2 * (I * s.initial_reward)
           r == ShiftRight(s.initial_reward, k)
           q == ShiftRight(s.initial_reward, k + 1)
           V == SumFunctionOnSet(RewardAt(s), 0..h)
           W == SumFunctionOnSet(RewardAt(s), 0..(h + 1))
           b == BlockReward(s, h + 1)
           top == ((k + 1) * I - 1) - h
<1>0. I \in Nat \ {0} /\ s.initial_reward \in Nat /\ h + 1 \in Nat /\ k + 1 \in Nat
  BY DEF IsSchedule
<1>1a. C \in Int
  BY <1>0
<1>1b. r \in Nat /\ q \in Nat
  BY <1>0, ShiftIsNat
<1>1c. b \in Nat
  BY <1>0, ScheduleTypes
<1>1d. V \in Nat
  <2>1. 0 \in Nat /\ h \in Int
    OBVIOUS
  <2> QED BY <2>1, RewardsAreSummed
<1>2. W = V + b
  <2>1. RewardAt(s)[h + 1] = b /\ \A i \in 0..(h + 1) : RewardAt(s)[i] \in Int
    BY <1>0, ScheduleTypes
  <2>2. 0 \in Int /\ h \in Int /\ 0 <= h + 1
    OBVIOUS
  <2> QED BY <2>1, <2>2, SumToNext
<1>3. q = r \div 2
  BY <1>0, ShiftUnfolds
<1>4. V + top * r + I * r <= C /\ k * I <= h /\ h < (k + 1) * I
  BY <1>1 DEF Paid
<1>5. \A j \in Nat : j * I <= h + 1 /\ h + 1 < (j + 1) * I
        => b <= ShiftRight(s.initial_reward, j)
  BY <1>0, RewardBound
<1>6. (k + 1) * I = k * I + I /\ ((k + 1) + 1) * I = (k + 1) * I + I
      /\ k * I \in Int /\ (k + 1) * I \in Int
  BY <1>0
<1> HIDE DEF b, V, W, C
<1>7. CASE h + 1 < (k + 1) * I
  <2>1. k * I <= h + 1
    BY <1>0, <1>4, <1>6
  <2>2. b <= r
    BY <1>5, <1>7, <2>1
  <2>3. ((k + 1) * I - 1) - (h + 1) = top - 1 /\ top \in Int
    BY <1>6
  <2> HIDE DEF top, r, I
  <2>4. (top - 1) * r + r = top * r /\ top * r \in Int /\ (top - 1) * r \in Int /\ I * r \in Int
    BY <1>0, <1>1b, <2>3
  <2>5. W + (top - 1) * r + I * r <= C
    BY <1>1a, <1>1b, <1>1c, <1>1d, <1>2, <1>4, <2>2, <2>4
  <2>6. W + (((k + 1) * I - 1) - (h + 1)) * r + I * r <= C
    BY <2>3, <2>5
  <2> QED BY <1>7, <2>1, <2>6 DEF Paid, r, W, C, I
<1>8. CASE ~ (h + 1 < (k + 1) * I)
  <2>1. h + 1 = (k + 1) * I /\ top = 0
    BY <1>4, <1>6, <1>8
  <2>2. (k + 1) * I <= h + 1 /\ h + 1 < ((k + 1) + 1) * I
    BY <1>0, <1>6, <2>1
  <2>3. b <= q
    BY <1>0, <1>5, <2>2
  <2>4. (((k + 1) + 1) * I - 1) - (h + 1) = I - 1
    BY <1>0, <1>6, <2>1
  <2> HIDE DEF top, r, I, q
  <2>5. 2 * q <= r
    BY <1>1b, <1>3
  <2>6. I * (2 * q) <= I * r
    BY <1>0, <1>1b, <2>5, ProductMonotone
  <2>7. q + (I - 1) * q + I * q = I * (2 * q) /\ top * r = 0
    BY <1>0, <1>1b, <2>1
  <2>8. /\ (I - 1) * q \in Int /\ I * q \in Int /\ I * r \in Int /\ I * (2 * q) \in Int
    BY <1>0, <1>1b
  <2>9. W + (I - 1) * q + I * q <= C
    <3>1. V + I * (2 * q) <= C
      BY <1>1a, <1>1d, <1>4, <2>6, <2>7, <2>8
    <3> QED BY <1>1a, <1>1b, <1>1c, <1>1d, <1>2, <2>3, <2>7, <2>8, <3>1
  <2>10. W + ((((k + 1) + 1) * I - 1) - (h + 1)) * q + I * q <= C
    BY <2>4, <2>9
  <2> QED BY <1>0, <2>2, <2>10 DEF Paid, q, W, C, I
<1> QED BY <1>7, <1>8

\* The rewards of the heights up to any height stay within the cap.
LEMMA RewardsWithinCap ==
    ASSUME NEW s, IsSchedule(s), NEW h \in Nat
    PROVE  SumFunctionOnSet(RewardAt(s), 0..h) <= s.maximum_supply
<1> DEFINE Good == { n \in Nat : \E k \in Nat : Paid(s, k, n) }
<1>1. 0 \in Good
  BY PaidAtStart
<1>2. \A n \in Nat : n \in Good => n + 1 \in Good
  BY PaidNext
<1>3. h \in Good
  <2> HIDE DEF Good
  <2> QED BY <1>1, <1>2, IntervalInduction
<1>4. PICK k \in Nat : Paid(s, k, h)
  BY <1>3
<1> DEFINE I == s.halving_interval
           r == ShiftRight(s.initial_reward, k)
           V == SumFunctionOnSet(RewardAt(s), 0..h)
           top == ((k + 1) * I - 1) - h
<1>5. I \in Nat \ {0} /\ r \in Nat /\ V \in Nat
  <2>1. I \in Nat \ {0} /\ r \in Nat
    BY ShiftIsNat DEF IsSchedule
  <2>2. 0 \in Nat /\ h \in Int
    OBVIOUS
  <2> QED BY <2>1, <2>2, RewardsAreSummed
<1>6. top \in Nat
  BY <1>4, <1>5 DEF Paid
<1>7. top * r \in Nat /\ I * r \in Nat
  BY <1>5, <1>6
<1>8. V + top * r + I * r <= 2 * (I * s.initial_reward)
  BY <1>4 DEF Paid
<1>9. 2 * (I * s.initial_reward) <= s.maximum_supply /\ s.maximum_supply \in Nat
      /\ 2 * (I * s.initial_reward) \in Int
  BY DEF IsSchedule
<1> HIDE DEF V, top, r, I
<1>10. V <= s.maximum_supply
  BY <1>5, <1>7, <1>8, <1>9
<1> QED BY <1>10 DEF V

-----------------------------------------------------------------------------
\* A stored block that was compared with its parent: one higher, no older.
Follows(b) ==
    LET parent == BlockOf[b].previous_block_hash
    IN  /\ parent \in blocks
        /\ BlockOf[b].height = BlockOf[parent].height + 1
        /\ BlockOf[b].timestamp >= BlockOf[parent].timestamp

\* utxo_set is what a replay of the best chain alone gives.
UtxoIsReplayed == utxo_set = UtxoOf(BlocksOf(best_chain))

\* The inductive invariant: every stored block but the genesis block and
\* strays follows a stored one, so a path without strays is stored to its end;
\* the best chain is the path of a stored block, it replays, and none without
\* strays is longer.
StoreInv ==
    /\ TypeOK
    /\ Genesis \in blocks
    /\ \A b \in blocks : b = Genesis \/ Stray(b) \/ Follows(b)
    /\ \A b \in blocks : NoStray(ancestry[b]) => PathKnown(b)
    /\ \E b \in blocks : /\ best_chain = ancestry[b] /\ PathKnown(b)
                         /\ current_height = BlockOf[b].height
    /\ LongestValidChain
    /\ UtxoIsReplayed

\* The path of a block whose parent is considered extends the parent's.
LEMMA PathOfChild ==
    ASSUME NEW b \in Block, b # Genesis, BlockOf[b].previous_block_hash \in Block
    PROVE  ancestry[b] = Append(ancestry[BlockOf[b].previous_block_hash], b)
BY BlockAssumption

\* The path of the genesis block, and of a block of unknown parent.
LEMMA PathOfRoot ==
    ASSUME NEW b \in Block,
           b = Genesis \/ BlockOf[b].previous_block_hash \notin Block
    PROVE  ancestry[b] = <<b>>
BY BlockAssumption

\* A path ends with its block.
LEMMA PathEnds ==
    ASSUME NEW b \in Block
    PROVE  /\ ancestry[b] \in Seq(Block) /\ Len(ancestry[b]) \in Nat \ {0}
           /\ ancestry[b][Len(ancestry[b])] = b
           /\ DOMAIN ancestry[b] = 1..Len(ancestry[b])
<1>1. ancestry[b] \in Seq(Block) /\ DOMAIN ancestry[b] = 1..Len(ancestry[b])
      /\ Len(ancestry[b]) \in Nat
  <2> DEFINE path == ancestry[b]
  <2>1. path \in Seq(Block)
    BY BlockAssumption
  <2> HIDE DEF path
  <2>2. DOMAIN path = 1..Len(path) /\ Len(path) \in Nat
    BY <2>1
  <2> QED BY <2>1, <2>2 DEF path
<1>2. CASE b = Genesis \/ BlockOf[b].previous_block_hash \notin Block
  BY <1>1, <1>2, PathOfRoot
<1>3. CASE b # Genesis /\ BlockOf[b].previous_block_hash \in Block
  <2> DEFINE up == ancestry[BlockOf[b].previous_block_hash]
  <2>1. ancestry[b] = Append(up, b) /\ up \in Seq(Block)
    BY <1>3, PathOfChild, BlockAssumption
  <2> QED BY <1>1, <2>1
<1> QED BY <1>1, <1>2, <1>3

\* Every beginning of a path is the path of its last block.
LEMMA PathPrefix ==
    ASSUME NEW b \in Block, NEW i \in 1..Len(ancestry[b])
    PROVE  ancestry[b][i] \in Block /\ ancestry[ancestry[b][i]] = SubSeq(ancestry[b], 1, i)
<1> DEFINE Prefixed(x) == \A j \in 1..Len(ancestry[x]) :
                             ancestry[ancestry[x][j]] = SubSeq(ancestry[x], 1, j)
           Good == { n \in Nat : \A x \in Block : Len(ancestry[x]) <= n => Prefixed(x) }
<1>1. 0 \in Good
  <2>1. \A x \in Block : ~(Len(ancestry[x]) <= 0)
    BY PathEnds
  <2> QED BY <2>1
<1>2. ASSUME NEW n \in Nat, n \in Good PROVE n + 1 \in Good
  <2> SUFFICES ASSUME NEW x \in Block, Len(ancestry[x]) <= n + 1,
                      NEW j \in 1..Len(ancestry[x])
               PROVE  ancestry[ancestry[x][j]] = SubSeq(ancestry[x], 1, j)
    OBVIOUS
  <2> DEFINE path == ancestry[x]
  <2>1. path \in Seq(Block) /\ Len(path) \in Nat \ {0} /\ path[Len(path)] = x
    BY PathEnds
  <2>2. CASE j = Len(path)
    <3>1. SubSeq(path, 1, Len(path)) = path
      <4> HIDE DEF path
      <4> QED BY <2>1
    <3> QED BY <2>1, <2>2, <3>1
  <2>3. CASE j # Len(path)
    <3> DEFINE up == ancestry[BlockOf[x].previous_block_hash]
    <3>1. x # Genesis /\ BlockOf[x].previous_block_hash \in Block
      <4>1. Len(path) > 1
        BY <2>1, <2>3
      <4>2. ASSUME x = Genesis \/ BlockOf[x].previous_block_hash \notin Block PROVE FALSE
        <5>1. path = <<x>>
          BY <4>2, PathOfRoot
        <5> HIDE DEF path
        <5> QED BY <4>1, <5>1
      <4> QED BY <4>2
    <3>2. path = Append(up, x) /\ up \in Seq(Block) /\ Len(up) \in Nat
      BY <3>1, PathOfChild, PathEnds
    <3> HIDE DEF path
    <3>3. Len(path) = Len(up) + 1 /\ j \in 1..Len(up) /\ path[j] = up[j]
      BY <2>1, <2>3, <3>2 DEF path
    <3>4. SubSeq(path, 1, j) = SubSeq(up, 1, j)
      BY <3>2, <3>3
    <3>5. ancestry[up[j]] = SubSeq(up, 1, j)
      <4>1. Len(up) <= n
        BY <3>2, <3>3 DEF path
      <4> QED BY <1>2, <3>1, <3>3, <4>1
    <3> QED BY <3>3, <3>4, <3>5 DEF path
  <2> QED BY <2>2, <2>3
<1>3. Len(ancestry[b]) \in Good
  <2> HIDE DEF Good
  <2> QED BY <1>1, <1>2, PathEnds, IntervalInduction
<1> QED BY <1>3, PathEnds

\* The blocks of a path are linked.
LEMMA PathLinks ==
    ASSUME NEW b \in Block, NEW i \in 2..Len(ancestry[b])
    PROVE  /\ ancestry[b][i] # Genesis
           /\ BlockOf[ancestry[b][i]].previous_block_hash = ancestry[b][i - 1]
<1> DEFINE path == ancestry[b]
           c == path[i]
           p == BlockOf[c].previous_block_hash
<1>1. path \in Seq(Block) /\ Len(path) \in Nat \ {0}
  BY PathEnds
<1>2. c \in Block /\ ancestry[c] = SubSeq(path, 1, i)
  BY <1>1, PathPrefix
<1> HIDE DEF path
<1>3. Len(ancestry[c]) = i /\ ancestry[c][i - 1] = path[i - 1]
  BY <1>1, <1>2 DEF path
<1> HIDE DEF c
<1>4. c # Genesis /\ p \in Block
  <2>1. Len(<<c>>) = 1
    OBVIOUS
  <2> QED BY <1>2, <1>3, <2>1, PathOfRoot DEF path
<1>5. ancestry[c] = Append(ancestry[p], c) /\ ancestry[p] \in Seq(Block)
      /\ Len(ancestry[p]) \in Nat \ {0} /\ ancestry[p][Len(ancestry[p])] = p
  BY <1>2, <1>4, PathOfChild, PathEnds
<1> HIDE DEF p
<1>6. Len(ancestry[p]) = i - 1 /\ ancestry[c][i - 1] = p
  BY <1>3, <1>5
<1> QED BY <1>3, <1>4, <1>6 DEF c, p, path

\* The genesis block alone is such a store.
LEMMA InitEstablishesStore == Init => StoreInv
<1> SUFFICES ASSUME Init PROVE StoreInv
  OBVIOUS
<1>1. Genesis \in Block /\ BlockOf[Genesis].height = 0
  BY BlockAssumption
<1>2. ancestry[Genesis] = <<Genesis>> /\ Len(<<Genesis>>) = 1 /\ DOMAIN <<Genesis>> = {1}
  BY <1>1, PathOfRoot
<1>3. TypeOK
  BY <1>1 DEF Init, TypeOK
<1>4. PathKnown(Genesis)
  BY <1>1, <1>2 DEF Init, PathKnown
<1>5. LongestValidChain
  <2>1. \A b \in blocks : ancestry[b] = best_chain
    BY <1>2 DEF Init
  <2>2. Replays(best_chain) /\ Len(best_chain) <= Len(best_chain)
    BY <1>2, GenesisAssumption DEF Init, Replays
  <2> QED BY <2>1, <2>2 DEF LongestValidChain
<1>6. UtxoIsReplayed
  BY DEF Init, UtxoIsReplayed
<1> QED BY <1>1, <1>2, <1>3, <1>4, <1>5, <1>6 DEF Init, StoreInv

\* Storing a block, adopted or not.
Storing(b) == CanStore(b) /\ blocks' = blocks \cup {b}

\* A stored block is a stray or follows its parent, and a path without strays
\* stays stored.
LEMMA StoringLinks ==
    ASSUME StoreInv, NEW b \in Block, Storing(b)
    PROVE  /\ \A x \in blocks' : x = Genesis \/ Stray(x) \/ Follows(x)'
           /\ \A x \in blocks' : NoStray(ancestry[x]) => PathKnown(x)'
<1> DEFINE p == BlockOf[b].previous_block_hash
<1>1. b # Genesis /\ BlockOf[b].height \in Nat
  BY BlockAssumption DEF StoreInv, CanStore, Storing
<1>2. ASSUME ~Stray(b)
      PROVE  /\ p \in blocks /\ BlockOf[b].height = BlockOf[p].height + 1
             /\ BlockOf[b].timestamp >= BlockOf[p].timestamp
  BY <1>1, <1>2 DEF Storing, CanStore, Validate, Stray
<1>3. ASSUME NEW x \in blocks' PROVE x = Genesis \/ Stray(x) \/ Follows(x)'
  BY <1>2, <1>3 DEF StoreInv, Follows, Storing
<1>4. ASSUME NEW x \in blocks', NoStray(ancestry[x]) PROVE PathKnown(x)'
  <2>1. CASE x # b
    BY <1>4, <2>1 DEF StoreInv, PathKnown, Storing
  <2>2. CASE x = b
    <3>1. ~Stray(b)
      BY <1>4, <2>2, PathEnds DEF NoStray
    <3>2. p \in blocks /\ p \in Block
      BY <1>2, <3>1 DEF StoreInv, TypeOK
    <3> DEFINE up == ancestry[p]
               path == ancestry[b]
    <3>3. /\ path = Append(up, b) /\ up \in Seq(Block) /\ Len(up) \in Nat \ {0}
          /\ DOMAIN up = 1..Len(up)
      BY <1>1, <3>2, PathOfChild, PathEnds
    <3> HIDE DEF up, path
    <3>4. /\ DOMAIN path = 1..(Len(up) + 1) /\ path[Len(up) + 1] = b
          /\ \A i \in 1..Len(up) : path[i] = up[i]
      BY <3>3
    <3>5. NoStray(up)
      BY <1>4, <2>2, <3>3, <3>4 DEF NoStray, path
    <3>6. up[1] = Genesis /\ \A i \in 1..Len(up) : up[i] \in blocks \cup {p}
      BY <3>2, <3>3, <3>5 DEF StoreInv, PathKnown, up
    <3>7. path[1] = Genesis /\ \A i \in 1..(Len(up) + 1) : path[i] \in blocks \cup {b}
      BY <3>2, <3>3, <3>4, <3>6
    <3> QED BY <2>2, <3>4, <3>7 DEF PathKnown, Storing, path
  <2> QED BY <2>1, <2>2
<1> QED BY <1>3, <1>4

\* What was not known before a block is stored and has no stray is that block.
LEMMA StoringBounds ==
    ASSUME StoreInv, NEW b \in Block, Storing(b), NEW x \in blocks', x # b,
           PathKnown(x)', Replays(ancestry[x])', NoStray(ancestry[x]),
           spoiled \subseteq spoiled'
    PROVE  Len(ancestry[x]) <= Len(best_chain)
<1>1. x \in blocks
  BY DEF Storing
<1>2. PathKnown(x)
  BY <1>1 DEF StoreInv
<1>3. Replays(ancestry[x])
  BY DEF Replays, ChainIsValid, BlocksOf
<1> QED BY <1>1, <1>2, <1>3 DEF StoreInv, LongestValidChain

\* Storing a block, adopted or not, keeps it one.
LEMMA StepPreservesStore == StoreInv /\ [Next]_chainVars => StoreInv'
<1> SUFFICES ASSUME StoreInv, [Next]_chainVars PROVE StoreInv'
  OBVIOUS
<1>1. ASSUME NEW b \in Block, Storing(b),
             best_chain' = best_chain, current_height' = current_height, utxo_set' = utxo_set,
             \/ spoiled' = spoiled /\ ~Adopts(b)
             \/ spoiled' = spoiled \cup {b}
      PROVE  StoreInv'
  <2>1. /\ \A x \in blocks' : x = Genesis \/ Stray(x) \/ Follows(x)'
        /\ \A x \in blocks' : NoStray(ancestry[x]) => PathKnown(x)'
    BY <1>1, StoringLinks
  <2>2. TypeOK'
    BY <1>1 DEF StoreInv, TypeOK, Storing
  <2>3. PICK t \in blocks : best_chain = ancestry[t] /\ PathKnown(t)
                            /\ current_height = BlockOf[t].height
    BY DEF StoreInv
  <2>4. t \in blocks' /\ PathKnown(t)'
    BY <1>1, <2>3 DEF PathKnown, Storing
  <2>5. LongestValidChain'
    <3>1. Replays(best_chain)'
      <4>1. ChainIsValid(best_chain) /\ ChainIsValid(best_chain)' = ChainIsValid(best_chain)
        BY <1>1 DEF StoreInv, LongestValidChain, Replays, ChainIsValid, BlocksOf
      <4>2. ASSUME NEW i \in DOMAIN best_chain PROVE best_chain[i] \notin spoiled'
        <5>1. best_chain[i] \in blocks /\ best_chain[i] \notin spoiled
          BY <2>3 DEF StoreInv, LongestValidChain, Replays, PathKnown
        <5> QED BY <1>1, <5>1 DEF Storing, CanStore
      <4> QED BY <1>1, <4>1, <4>2 DEF Replays
    <3>2. ASSUME NEW x \in blocks', PathKnown(x)', Replays(ancestry[x])', NoStray(ancestry[x])
          PROVE  Len(ancestry[x]) <= Len(best_chain)
      <4>1. CASE x = b
        <5>1. b \notin spoiled'
          BY <3>2, <4>1, PathEnds DEF Replays
        <5>2. PathKnown(b) /\ Replays(ancestry[b]) /\ ~Adopts(b)
          BY <1>1, <3>2, <4>1, <5>1 DEF PathKnown, Storing, Replays, ChainIsValid, BlocksOf
        <5>3. ~(Len(ancestry[b]) > Len(best_chain))
          BY <5>2 DEF Adopts
        <5>4. Len(ancestry[b]) \in Nat /\ Len(best_chain) \in Nat
          BY PathEnds DEF StoreInv, TypeOK
        <5> QED BY <4>1, <5>3, <5>4
      <4>2. CASE x # b
        BY <1>1, <3>2, <4>2, StoringBounds
      <4> QED BY <4>1, <4>2
    <3> QED BY <1>1, <3>1, <3>2 DEF LongestValidChain, NoStray, Stray
  <2>6. UtxoIsReplayed'
    BY <1>1 DEF StoreInv, UtxoIsReplayed, BlocksOf
  <2>7. Genesis \in blocks'
    BY <1>1 DEF StoreInv, Storing
  <2> QED BY <1>1, <2>1, <2>2, <2>3, <2>4, <2>5, <2>6, <2>7 DEF StoreInv, NoStray, Stray
<1>2. ASSUME NEW b \in Block, StoreBlock(b) PROVE StoreInv'
  BY <1>1, <1>2 DEF StoreBlock, Storing
<1>3. ASSUME NEW b \in Block, StoreTwin(b) PROVE StoreInv'
  BY <1>1, <1>3 DEF StoreTwin, Storing
<1>4. ASSUME NEW b \in Block, AdoptBlock(b) PROVE StoreInv'
  <2>1. Storing(b) /\ Adopts(b) /\ spoiled' = spoiled
    BY <1>4 DEF AdoptBlock, Storing
  <2>2. /\ best_chain' = ancestry[b]
        /\ current_height' = BlockOf[b].height
        /\ utxo_set' = UtxoOf(BlocksOf(ancestry[b]))
    BY <1>4 DEF AdoptBlock
  <2>3. /\ \A x \in blocks' : x = Genesis \/ Stray(x) \/ Follows(x)'
        /\ \A x \in blocks' : NoStray(ancestry[x]) => PathKnown(x)'
    BY <2>1, StoringLinks
  <2>4. TypeOK'
    BY <2>1, <2>2, BlockAssumption DEF StoreInv, TypeOK, Storing
  <2>5. b \in blocks' /\ PathKnown(b)'
    BY <2>1 DEF Adopts, PathKnown, Storing
  <2>6. LongestValidChain'
    <3>1. Replays(ancestry[b]) /\ Len(ancestry[b]) > Len(best_chain)
      BY <2>1 DEF Adopts
    <3>2. Len(ancestry[b]) \in Nat /\ Len(best_chain) \in Nat
      BY PathEnds DEF StoreInv, TypeOK
    <3>3. ASSUME NEW x \in blocks', PathKnown(x)', Replays(ancestry[x])', NoStray(ancestry[x])
          PROVE  Len(ancestry[x]) <= Len(ancestry[b])
      <4>1. CASE x = b
        BY <3>2, <4>1
      <4>2. CASE x # b
        <5>1. Len(ancestry[x]) <= Len(best_chain)
          BY <2>1, <3>3, <4>2, StoringBounds
        <5>2. Len(ancestry[x]) \in Nat
          BY <2>4, <3>3, PathEnds DEF TypeOK
        <5> QED BY <3>1, <3>2, <5>1, <5>2
      <4> QED BY <4>1, <4>2
    <3>4. Replays(best_chain)'
      BY <2>1, <2>2, <3>1 DEF Replays, ChainIsValid, BlocksOf
    <3> QED BY <2>2, <3>3, <3>4 DEF LongestValidChain, NoStray, Stray
  <2>7. UtxoIsReplayed'
    BY <2>2 DEF UtxoIsReplayed, BlocksOf
  <2>8. Genesis \in blocks'
    BY <2>1 DEF StoreInv, Storing
  <2> QED BY <2>2, <2>3, <2>4, <2>5, <2>6, <2>7, <2>8 DEF StoreInv, NoStray, Stray
<1>5. CASE UNCHANGED chainVars
  <2>1. /\ blocks' = blocks /\ spoiled' = spoiled /\ best_chain' = best_chain
        /\ current_height' = current_height /\ utxo_set' = utxo_set
    BY <1>5 DEF chainVars
  <2> QED BY <2>1 DEF StoreInv, TypeOK, Follows, LongestValidChain, UtxoIsReplayed,
                      PathKnown, Replays, ChainIsValid, BlocksOf, NoStray, Stray
<1> QED BY <1>2, <1>3, <1>4, <1>5 DEF Next

\* The inductive invariant is one.
LEMMA StoreInvariant == Spec => []StoreInv
BY InitEstablishesStore, StepPreservesStore, PTL DEF Spec

\* add_block keeps the types of the block store.
THEOREM TypeCorrect == Spec => []TypeOK
<1>1. StoreInv => TypeOK
  BY DEF StoreInv
<1> QED BY <1>1, StoreInvariant, PTL

\* The path of a stored block from genesis is a linked chain.
LEMMA StoreInvLinks == StoreInv => BestChainLinked
<1> SUFFICES ASSUME StoreInv PROVE BestChainLinked
  OBVIOUS
<1>1. PICK b \in blocks : best_chain = ancestry[b] /\ current_height = BlockOf[b].height
                          /\ PathKnown(b)
  BY DEF StoreInv
<1>2. /\ b \in Block /\ best_chain \in Seq(Block) /\ Len(best_chain) \in Nat \ {0}
      /\ best_chain[Len(best_chain)] = b /\ DOMAIN best_chain = 1..Len(best_chain)
  BY <1>1, PathEnds DEF StoreInv, TypeOK
<1>3. best_chain[1] = Genesis /\ \A i \in DOMAIN best_chain : best_chain[i] \in blocks
  BY <1>1 DEF PathKnown
<1>4. ASSUME NEW i \in 2..Len(best_chain)
      PROVE  /\ BlockOf[best_chain[i]].previous_block_hash = best_chain[i - 1]
             /\ \/ Stray(best_chain[i])
                \/ /\ BlockOf[best_chain[i]].height = BlockOf[best_chain[i - 1]].height + 1
                   /\ BlockOf[best_chain[i]].timestamp >= BlockOf[best_chain[i - 1]].timestamp
  <2>1. /\ best_chain[i] # Genesis
        /\ BlockOf[best_chain[i]].previous_block_hash = best_chain[i - 1]
    BY <1>1, <1>2, PathLinks
  <2>2. best_chain[i] \in blocks
    BY <1>2, <1>3
  <2> QED BY <2>1, <2>2 DEF StoreInv, Follows
<1>5. current_height = BlockOf[Tip].height /\ best_chain # <<>>
  BY <1>1, <1>2 DEF Tip
<1> QED BY <1>3, <1>4, <1>5 DEF BestChainLinked

\* The best chain is always a linked chain of stored blocks from the genesis
\* block to a tip at current_height, whatever blocks arrive and in whatever
\* order: no reorganisation leaves best_chain and current_height apart, and
\* heights only ever start again at a stray.
THEOREM ChainIsLinked == Spec => []BestChainLinked
BY StoreInvLinks, StoreInvariant, PTL

\* The best chain replays without error, and no stored chain without strays
\* that does is longer, for every order in which blocks of every branch arrive.
THEOREM LongestValid == Spec => []LongestValidChain
<1>1. StoreInv => LongestValidChain
  BY DEF StoreInv
<1> QED BY <1>1, StoreInvariant, PTL

\* add_block only ever replaces the best chain by a longer one and never
\* drops a block.
THEOREM OnlyLonger == Spec => ReorgsOnlyToLonger
<1>1. [Next]_chainVars =>
        [ /\ best_chain' # best_chain => Len(best_chain') > Len(best_chain)
          /\ blocks \subseteq blocks' ]_chainVars
  BY DEF Next, StoreBlock, StoreTwin, AdoptBlock, Adopts, chainVars
<1> QED BY <1>1, PTL DEF Spec, ReorgsOnlyToLonger

\* A path that becomes known when a block is stored leads through it.
LEMMA BecomesKnown ==
    ASSUME StoreInv, NEW b \in Block, Storing(b),
           NEW x \in blocks, ~PathKnown(x), PathKnown(x)'
    PROVE  /\ PathKnown(b)
           /\ \E j \in 1..Len(ancestry[x]) :
                 j # Len(ancestry[x]) /\ ancestry[x][j] = b /\ ancestry[b] = SubSeq(ancestry[x], 1, j)
<1> DEFINE path == ancestry[x]
<1>1. /\ x \in Block /\ path \in Seq(Block) /\ Len(path) \in Nat \ {0}
      /\ path[Len(path)] = x /\ DOMAIN path = 1..Len(path)
  BY PathEnds DEF StoreInv, TypeOK
<1>2. path[1] = Genesis /\ \A i \in 1..Len(path) : path[i] \in blocks \cup {b}
  BY <1>1 DEF PathKnown, Storing
<1>3. PICK j \in 1..Len(path) : path[j] \notin blocks
  BY <1>1, <1>2 DEF PathKnown
<1>4. path[j] = b /\ ancestry[b] = SubSeq(path, 1, j)
  BY <1>1, <1>2, <1>3, PathPrefix
<1>5. j # Len(path)
  BY <1>1, <1>3
<1> HIDE DEF path
<1>6. Len(ancestry[b]) = j /\ \A i \in 1..j : ancestry[b][i] = path[i]
  BY <1>1, <1>3, <1>4
<1>7. ancestry[b][1] = Genesis /\ \A i \in 1..j : ancestry[b][i] \in blocks \cup {b}
  BY <1>1, <1>2, <1>3, <1>6
<1>8. PathKnown(b)
  BY <1>6, <1>7, PathEnds DEF PathKnown
<1> QED BY <1>4, <1>5, <1>8 DEF path

\* One chain is a longer one's beginning.
Extends(d, c) == Len(d) > Len(c) /\ SubSeq(d, 1, Len(c)) = c

\* Storing a block whose path is known makes its chain known, and chains that
\* extend it; storing any other block makes none known, and so does storing
\* one with transactions repeated.
LEMMA StoringLearns ==
    ASSUME StoreInv, NEW b \in Block, Storing(b)
    PROVE  /\ spoiled' = spoiled /\ PathKnown(b) /\ Whole(b) =>
                /\ ancestry[b] \notin KnownChains
                /\ \E late \in SUBSET LC!Extensions(ancestry[b]) :
                      KnownChains' = KnownChains \cup {ancestry[b]} \cup late
           /\ \/ spoiled' = spoiled /\ ~(PathKnown(b) /\ Whole(b))
              \/ spoiled' = spoiled \cup {b}
              => KnownChains' = KnownChains
<1>1. b \notin blocks /\ blocks' = blocks \cup {b} /\ blocks \subseteq Block
  BY DEF Storing, CanStore, StoreInv, TypeOK
<1>2. PathKnown(b)' <=> PathKnown(b)
  BY <1>1 DEF PathKnown
<1>3. ASSUME NEW x \in blocks PROVE ancestry[x] # ancestry[b]
  BY <1>1, <1>3, PathEnds
<1>4. ASSUME spoiled' = spoiled \/ spoiled' = spoiled \cup {b},
             NEW x \in blocks, PathKnown(x), Whole(x)
      PROVE  PathKnown(x)' /\ Whole(x)'
  BY <1>1, <1>4 DEF PathKnown, Whole
<1>5. ASSUME spoiled' = spoiled \/ spoiled' = spoiled \cup {b},
             NEW x \in blocks, ~(PathKnown(x) /\ Whole(x)), PathKnown(x)', Whole(x)'
      PROVE  /\ spoiled' = spoiled /\ PathKnown(b) /\ Whole(b)
             /\ Extends(ancestry[x], ancestry[b])
  <2>1. Whole(x)
    BY <1>5 DEF Whole
  <2>2. PICK j \in 1..Len(ancestry[x]) :
            j # Len(ancestry[x]) /\ ancestry[x][j] = b /\ ancestry[b] = SubSeq(ancestry[x], 1, j)
    BY <1>5, <2>1, BecomesKnown
  <2>3. PathKnown(b)
    BY <1>5, <2>1, BecomesKnown
  <2> DEFINE s == ancestry[b]
             t == ancestry[x]
  <2>4. t \in Seq(Block) /\ DOMAIN t = 1..Len(t) /\ DOMAIN s = 1..Len(s)
    BY <1>1, PathEnds
  <2>5. \A i \in 1..Len(t) : t[i] \notin spoiled /\ t[i] \notin spoiled'
    BY <1>5, <2>1, <2>4 DEF Whole
  <2>6. s = SubSeq(t, 1, j) /\ j \in 1..Len(t) /\ j # Len(t) /\ t[j] = b
    BY <2>2
  <2> HIDE DEF s, t
  <2>7. Len(t) \in Nat /\ Len(s) = j /\ \A i \in 1..j : s[i] = t[i]
    <3>1. t \in Seq(Block)
      BY <2>4
    <3> QED BY <2>6, <3>1
  <2>9. Extends(t, s)
    <3>1. Len(t) > Len(s)
      BY <2>6, <2>7
    <3> QED BY <2>6, <2>7, <3>1 DEF Extends
  <2>10. Whole(b)
    <3>1. DOMAIN s = 1..j
      BY <2>4, <2>7
    <3>2. \A i \in 1..j : i \in 1..Len(t)
      BY <2>6, <2>7
    <3>3. \A i \in DOMAIN s : s[i] \notin spoiled
      BY <2>5, <2>7, <3>1, <3>2
    <3> USE DEF s
    <3> QED BY <3>3, Zenon DEF Whole
  <2>11. spoiled' = spoiled
    BY <1>5, <2>5, <2>6
  <2> QED BY <2>3, <2>9, <2>10, <2>11 DEF s, t
<1>6. ASSUME spoiled' = spoiled, PathKnown(b), Whole(b)
      PROVE  /\ ancestry[b] \notin KnownChains
             /\ \E late \in SUBSET LC!Extensions(ancestry[b]) :
                   KnownChains' = KnownChains \cup {ancestry[b]} \cup late
  <2> DEFINE late == KnownChains' \ (KnownChains \cup {ancestry[b]})
  <2>1. ancestry[b] \notin KnownChains
    BY <1>3 DEF KnownChains
  <2>2. ancestry[b] \in KnownChains' /\ KnownChains \subseteq KnownChains'
    BY <1>1, <1>2, <1>4, <1>6 DEF KnownChains, Whole
  <2>3. late \subseteq LC!Extensions(ancestry[b])
    <3> SUFFICES ASSUME NEW d \in late PROVE d \in LC!Extensions(ancestry[b])
      OBVIOUS
    <3>1. PICK x \in blocks' : d = ancestry[x] /\ PathKnown(x)' /\ Whole(x)'
      BY DEF KnownChains
    <3>2. x \in blocks /\ ~(PathKnown(x) /\ Whole(x))
      BY <1>1, <3>1 DEF KnownChains
    <3>3. Extends(d, ancestry[b])
      BY <1>5, <1>6, <3>1, <3>2
    <3> QED BY <1>1, <3>1, <3>2, <3>3 DEF LC!Extensions, Extends
  <2>4. KnownChains' = KnownChains \cup {ancestry[b]} \cup late
    BY <2>2
  <2> QED BY <2>1, <2>3, <2>4
<1>7. ASSUME \/ spoiled' = spoiled /\ ~(PathKnown(b) /\ Whole(b))
             \/ spoiled' = spoiled \cup {b}
      PROVE  KnownChains' = KnownChains
  <2>1. ~(PathKnown(b)' /\ Whole(b)')
    <3>1. CASE spoiled' = spoiled /\ ~(PathKnown(b) /\ Whole(b))
      BY <1>2, <3>1 DEF Whole
    <3>2. CASE spoiled' = spoiled \cup {b}
      BY <3>2, PathEnds DEF Whole
    <3> QED BY <1>7, <3>1, <3>2
  <2>2. ASSUME NEW x \in blocks PROVE (PathKnown(x) /\ Whole(x)) <=> (PathKnown(x)' /\ Whole(x)')
    <3>1. CASE spoiled' = spoiled /\ ~(PathKnown(b) /\ Whole(b))
      BY <1>4, <1>5, <2>2, <3>1
    <3>2. CASE spoiled' = spoiled \cup {b}
      <4>1. ASSUME spoiled' = spoiled PROVE FALSE
        <5>1. b \in spoiled
          BY <3>2, <4>1
        <5> QED BY <1>1, <5>1 DEF StoreInv, TypeOK
      <4> QED BY <1>4, <1>5, <2>2, <3>2, <4>1
    <3> QED BY <1>7, <3>1, <3>2
  <2> QED BY <1>1, <2>1, <2>2 DEF KnownChains
<1> QED BY <1>6, <1>7

\* The store starts as the abstract chain does.
LEMMA InitMaps == Init => LC!Init
<1> SUFFICES ASSUME Init PROVE LC!Init
  OBVIOUS
<1>1. ancestry[Genesis] = <<Genesis>> /\ DOMAIN <<Genesis>> = {1}
  BY PathOfRoot, BlockAssumption
<1>2. PathKnown(Genesis) /\ Whole(Genesis)
  BY <1>1 DEF Init, PathKnown, Whole
<1> QED BY <1>1, <1>2 DEF Init, LC!Init, KnownChains

\* What is stored and adopted is learned, or switches the chain.
LEMMA StepMaps == StoreInv /\ [Next]_chainVars => [LC!Next]_LC!vars
<1> SUFFICES ASSUME StoreInv, [Next]_chainVars PROVE [LC!Next]_LC!vars
  OBVIOUS
<1>1. ASSUME NEW b \in Block, StoreBlock(b) PROVE [LC!Next]_LC!vars
  <2>1. Storing(b) /\ ~Adopts(b) /\ best_chain' = best_chain /\ spoiled' = spoiled
    BY <1>1 DEF StoreBlock, Storing
  <2>2. CASE PathKnown(b) /\ Whole(b)
    <3>1. /\ ancestry[b] \notin KnownChains
          /\ \E late \in SUBSET LC!Extensions(ancestry[b]) :
                KnownChains' = KnownChains \cup {ancestry[b]} \cup late
      BY <2>1, <2>2, StoringLearns
    <3>2. ~(ancestry[b] \in ValidChains /\ Len(ancestry[b]) > Len(best_chain))
      BY <2>1, <2>2 DEF Adopts, ValidChains, Replays, Whole
    <3>3. LC!Learn(ancestry[b])
      BY <2>1, <3>1, <3>2 DEF LC!Learn
    <3> QED BY <3>3 DEF LC!Next
  <2>3. CASE ~(PathKnown(b) /\ Whole(b))
    BY <2>1, <2>3, StoringLearns DEF LC!vars
  <2> QED BY <2>2, <2>3
<1>2. ASSUME NEW b \in Block, StoreTwin(b) PROVE [LC!Next]_LC!vars
  <2>1. Storing(b) /\ best_chain' = best_chain /\ spoiled' = spoiled \cup {b}
    BY <1>2 DEF StoreTwin, Storing
  <2> QED BY <2>1, StoringLearns DEF LC!vars
<1>3. ASSUME NEW b \in Block, AdoptBlock(b) PROVE [LC!Next]_LC!vars
  <2>1. Storing(b) /\ Adopts(b) /\ best_chain' = ancestry[b] /\ spoiled' = spoiled
    BY <1>3 DEF AdoptBlock, Storing
  <2>2. PathKnown(b) /\ Whole(b)
    BY <2>1 DEF Adopts, Replays, Whole
  <2>3. /\ ancestry[b] \notin KnownChains
        /\ \E late \in SUBSET LC!Extensions(ancestry[b]) :
              KnownChains' = KnownChains \cup {ancestry[b]} \cup late
    BY <2>1, <2>2, StoringLearns
  <2>4. ancestry[b] \in ValidChains /\ Len(ancestry[b]) > Len(best_chain)
    BY <2>1 DEF Adopts, ValidChains, Replays
  <2>5. LC!Learn(ancestry[b])
    BY <2>1, <2>3, <2>4 DEF LC!Learn
  <2> QED BY <2>5 DEF LC!Next
<1>4. CASE UNCHANGED chainVars
  BY <1>4 DEF chainVars, LC!vars, KnownChains, PathKnown, Whole
<1> QED BY <1>1, <1>2, <1>3, <1>4 DEF Next

\* add_block implements LongestChain: whatever is stored, in whatever order,
\* the best chain behaves as the head of a store of chains would.
THEOREM Refinement == Spec => ImplementsLongestChain
BY InitMaps, StepMaps, StoreInvariant, PTL DEF Spec, ImplementsLongestChain, LC!Spec

-----------------------------------------------------------------------------
\* The transactions of the blocks considered and of the bootstrap outputs, and
\* the outputs they create.
Mined == UNION { Range(BlockOf[b].transactions) : b \in Block }
Funding == { o[1] : o \in Bootstrap }
Ledgered == Mined \cup Funding
Outpoints == UNION { Creates(tx) : tx \in Ledgered }

\* What an output, and a set of them, is worth.
Value == [ o \in Outpoints |-> OutputAt(o).value ]
Worth(S) == SumFunctionOnSet(Value, S)

\* The sum of a transaction's outputs before it wraps, and that it does not.
OutputSum(tx) == SumFunction([ i \in DOMAIN tx.outputs |-> tx.outputs[i].value ])
Unwrapped(tx) == OutputSum(tx) < U64

\* The transactions considered are transactions, and the bootstrap outputs theirs.
LEMMA LedgeredTypes ==
    /\ \A tx \in Ledgered : IsTransaction(tx)
    /\ \A b \in Block : \A i \in DOMAIN BlockOf[b].transactions :
          BlockOf[b].transactions[i] \in Ledgered
    /\ Bootstrap \subseteq Outpoints
<1>1. ASSUME NEW b \in Block, NEW i \in DOMAIN BlockOf[b].transactions
      PROVE  BlockOf[b].transactions[i] \in Ledgered
  <2>1. BlockOf[b].transactions[i] \in Range(BlockOf[b].transactions)
    BY DEF Range
  <2> QED BY <2>1 DEF Mined, Ledgered
<1>2. ASSUME NEW tx \in Ledgered PROVE IsTransaction(tx)
  <2>1. CASE tx \in Funding
    BY <2>1, LedgerAssumption DEF Funding
  <2>2. CASE tx \in Mined
    <3>1. PICK b \in Block : tx \in Range(BlockOf[b].transactions)
      BY <2>2 DEF Mined
    <3>2. PICK i \in DOMAIN BlockOf[b].transactions : tx = BlockOf[b].transactions[i]
      BY <3>1 DEF Range
    <3> QED BY <3>2, BlockAssumption
  <2> QED BY <1>2, <2>1, <2>2 DEF Ledgered
<1>3. ASSUME NEW o \in Bootstrap PROVE o \in Outpoints
  <2>1. o[1] \in Ledgered
    BY DEF Ledgered, Funding
  <2>2. o \in Creates(o[1])
    BY LedgerAssumption DEF Creates
  <2> QED BY <2>1, <2>2 DEF Outpoints
<1> QED BY <1>1, <1>2, <1>3

\* An output is worth what it says, a natural.
LEMMA OutpointValue ==
    \A o \in Outpoints : Value[o] \in Nat /\ Value[o] = OutputAt(o).value
<1> SUFFICES ASSUME NEW o \in Outpoints PROVE OutputAt(o).value \in Nat
  BY DEF Value
<1>1. PICK tx \in Ledgered : o \in Creates(tx)
  BY DEF Outpoints
<1>2. PICK i \in DOMAIN tx.outputs : o = <<tx, i>>
  BY <1>1 DEF Creates
<1>3. OutputAt(o) = tx.outputs[i]
  BY <1>2 DEF OutputAt
<1>4. tx.outputs[i].value \in 0..(U64 - 1) /\ U64 \in Nat
  BY <1>1, LedgeredTypes, LedgerAssumption DEF IsTransaction
<1> QED BY <1>3, <1>4

\* ValueOf is Worth, where both are defined.
LEMMA WorthOfSet ==
    ASSUME NEW S \in SUBSET Outpoints, IsFiniteSet(S)
    PROVE  ValueOf(S) = Worth(S) /\ Worth(S) \in Nat
<1> DEFINE f == [ o \in S |-> OutputAt(o).value ]
<1>1. DOMAIN f = S /\ \A o \in S : f[o] \in Int /\ f[o] = Value[o] /\ Value[o] \in Nat
  BY OutpointValue
<1> HIDE DEF f
<1>2. SumFunctionOnSet(f, S) = Worth(S)
  BY <1>1, SumOfAgreeing DEF Worth
<1>3. Worth(S) \in Nat
  BY <1>1, SumIsNat DEF Worth
<1>4. SumFunction(f) = Worth(S)
  BY <1>1, <1>2 DEF SumFunction
<1> QED BY <1>3, <1>4 DEF f, ValueOf

\* What a transaction creates is worth the sum of its outputs.
LEMMA CreatedWorth ==
    ASSUME NEW tx \in Ledgered
    PROVE  /\ Creates(tx) \subseteq Outpoints /\ IsFiniteSet(Creates(tx))
           /\ Worth(Creates(tx)) = OutputSum(tx) /\ OutputSum(tx) \in Nat
           /\ Unwrapped(tx) => TotalOutputValue(tx) = OutputSum(tx)
<1> DEFINE n == Len(tx.outputs)
           h == [ i \in 1..n |-> <<tx, i>> ]
           g == [ i \in 1..n |-> tx.outputs[i].value ]
<1>1. n \in Nat /\ DOMAIN tx.outputs = 1..n
  BY LedgeredTypes DEF IsTransaction
<1>2. Creates(tx) \subseteq Outpoints
  BY DEF Outpoints
<1>3. Creates(tx) = { h[i] : i \in 1..n }
  BY <1>1 DEF Creates
<1>4. \A i \in 1..n : h[i] \in Outpoints /\ OutputAt(h[i]) = tx.outputs[i]
  BY <1>2, <1>3 DEF OutputAt
<1>5. \A i \in 1..n : g[i] = Value[h[i]] /\ Value[h[i]] \in Int
  <2>1. \A i \in 1..n : g[i] = tx.outputs[i].value
    OBVIOUS
  <2> HIDE DEF g, h
  <2> QED BY <1>4, <2>1, OutpointValue
<1>6. \A i, j \in 1..n : h[i] = h[j] => i = j
  OBVIOUS
<1>7. OutputSum(tx) = SumFunctionOnSet(g, 1..n)
  BY <1>1 DEF OutputSum, SumFunction
<1> HIDE DEF n, h, g
<1>8. /\ IsFiniteSet({ h[i] : i \in 1..n })
      /\ SumFunctionOnSet(Value, { h[i] : i \in 1..n }) = SumFunctionOnSet(g, 1..n)
  BY <1>1, <1>5, <1>6, SumOfImage
<1>9. IsFiniteSet(Creates(tx)) /\ Worth(Creates(tx)) = OutputSum(tx)
  BY <1>3, <1>7, <1>8 DEF Worth
<1>10. OutputSum(tx) \in Nat
  BY <1>2, <1>9, WorthOfSet
<1>11. TotalOutputValue(tx) = OutputSum(tx) % U64
  BY DEF TotalOutputValue, OutputSum
<1>12. Unwrapped(tx) => OutputSum(tx) % U64 = OutputSum(tx)
  BY <1>10, LedgerAssumption, Z3 DEF Unwrapped
<1> QED BY <1>2, <1>9, <1>10, <1>11, <1>12

\* What a transaction spends is worth the sum of its inputs.
LEMMA SpentWorth ==
    ASSUME NEW tx, IsTransaction(tx), Spends(tx) \subseteq Outpoints
    PROVE  IsFiniteSet(Spends(tx)) /\ TotalInputValue(tx) = Worth(Spends(tx))
<1> DEFINE n == Len(tx.inputs)
           D == 1..n
           spent == [ i \in D |-> tx.inputs[i].previous_output ]
<1>1. n \in Nat /\ DOMAIN tx.inputs = D
  BY DEF IsTransaction
<1>2. IsFiniteSet(D)
  BY <1>1, FS_Interval
<1>3. Spends(tx) = { spent[i] : i \in D }
  BY <1>1 DEF Spends
<1> HIDE DEF D, spent
<1>4. IsFiniteSet({ spent[i] : i \in D })
  <2> DEFINE R == { spent[i] : i \in D }
             F == [ i \in D |-> spent[i] ]
  <2>1. F \in Surjection(D, R)
    BY DEF Surjection
  <2> HIDE DEF R, F
  <2>2. IsFiniteSet(R)
    BY <1>2, <2>1, FS_Surjection
  <2> QED BY <2>2 DEF R
<1>5. IsFiniteSet(Spends(tx))
  BY <1>3, <1>4
<1>6. TotalInputValue(tx) = ValueOf(Spends(tx))
  BY DEF TotalInputValue, ValueOf
<1> QED BY <1>5, <1>6, WorthOfSet

Held(U) == U \subseteq Outpoints /\ IsFiniteSet(U)

\* A payment leaves the set worth less by its fee.
LEMMA PaymentWorth ==
    ASSUME NEW U, Held(U), NEW tx \in Ledgered, Unwrapped(tx), ValidSpend(U, tx)
    PROVE  /\ Held(ApplyTransaction(U, tx))
           /\ Fee(tx) \in Nat
           /\ Worth(ApplyTransaction(U, tx)) + Fee(tx) <= Worth(U)
<1> DEFINE S == Spends(tx)
           C == Creates(tx)
           R == U \ S
<1>1. S \subseteq U
  BY DEF ValidSpend, Spends
<1>2. IsFiniteSet(S) /\ TotalInputValue(tx) = Worth(S) /\ S \subseteq Outpoints
  BY <1>1, LedgeredTypes, SpentWorth DEF Held
<1>3. /\ IsFiniteSet(C) /\ C \subseteq Outpoints /\ Worth(C) \in Nat
      /\ TotalOutputValue(tx) = Worth(C)
  BY CreatedWorth
<1>4. IsFiniteSet(R) /\ R \subseteq Outpoints
  BY FS_Subset DEF Held
<1>5. Worth(U) \in Nat /\ Worth(S) \in Nat /\ Worth(R) \in Nat
  BY <1>2, <1>4, WorthOfSet DEF Held
<1>6. Worth(R) = Worth(U) - Worth(S)
  <2>1. IsFiniteSet(U) /\ S \in SUBSET U /\ \A x \in U : Value[x] \in Int
    BY <1>1, OutpointValue DEF Held
  <2> HIDE DEF S
  <2> QED BY <2>1, SumOfPart DEF Worth, R
<1>7. Worth(R \cup C) <= Worth(R) + Worth(C)
  <2>1. \A x \in R \cup C : Value[x] \in Nat
    BY <1>3, <1>4, OutpointValue
  <2> HIDE DEF R, C
  <2> QED BY <1>3, <1>4, <2>1, SumOfCover DEF Worth
<1>8. IsFiniteSet(R \cup C) /\ R \cup C \subseteq Outpoints
  BY <1>3, <1>4, FS_Union
<1>9. ApplyTransaction(U, tx) = R \cup C
  BY DEF ApplyTransaction
<1>10. Worth(R \cup C) \in Nat
  BY <1>8, WorthOfSet
<1>11. Fee(tx) = Worth(S) - Worth(C) /\ Worth(C) <= Worth(S)
  BY <1>2, <1>3 DEF Fee, ValidSpend
<1> HIDE DEF R, S, C
<1> QED BY <1>3, <1>5, <1>6, <1>7, <1>8, <1>9, <1>10, <1>11 DEF Held

\* A coinbase adds what it pays.
LEMMA CoinbaseWorth ==
    ASSUME NEW U, Held(U), NEW tx \in Ledgered, Unwrapped(tx), IsCoinbase(tx)
    PROVE  /\ Held(ApplyTransaction(U, tx)) /\ TotalOutputValue(tx) \in Nat
           /\ Worth(ApplyTransaction(U, tx)) <= Worth(U) + TotalOutputValue(tx)
<1> DEFINE C == Creates(tx)
<1>1. ApplyTransaction(U, tx) = U \cup C
  <2>1. Spends(tx) = {}
    BY DEF IsCoinbase, Spends
  <2> QED BY <2>1 DEF ApplyTransaction
<1>2. /\ IsFiniteSet(C) /\ C \subseteq Outpoints /\ Worth(C) \in Nat
      /\ TotalOutputValue(tx) = Worth(C)
  BY CreatedWorth
<1>3. Worth(U \cup C) <= Worth(U) + Worth(C)
  <2>1. IsFiniteSet(U) /\ \A x \in U \cup C : Value[x] \in Nat
    BY <1>2, OutpointValue DEF Held
  <2> HIDE DEF C
  <2> QED BY <1>2, <2>1, SumOfCover DEF Worth
<1>4. Held(U \cup C)
  BY <1>2, FS_Union DEF Held
<1> QED BY <1>1, <1>2, <1>3, <1>4

-----------------------------------------------------------------------------
\* The states between the transactions of a block.
Applies(U, txs, g, n) ==
    g = [ i \in 0..n |-> IF i = 0 THEN U ELSE ApplyTransaction(g[i - 1], txs[i]) ]

\* There is such a function, for every number of transactions.
LEMMA AppliesExists ==
    ASSUME NEW U, NEW txs
    PROVE  \A n \in Nat : \E g : Applies(U, txs, g, n)
<1> DEFINE Good == { n \in Nat : \E g : Applies(U, txs, g, n) }
<1>1. 0 \in Good
  <2> DEFINE g == [ i \in 0..0 |-> U ]
  <2>1. Applies(U, txs, g, 0)
    BY DEF Applies
  <2> HIDE DEF g
  <2> QED BY <2>1
<1>2. ASSUME NEW n \in Nat, n \in Good PROVE n + 1 \in Good
  <2>1. PICK g : Applies(U, txs, g, n)
    BY <1>2
  <2> DEFINE h == [ i \in 0..(n + 1) |->
                      IF i = 0 THEN U ELSE ApplyTransaction(g[i - 1], txs[i]) ]
  <2>2. \A i \in 0..n : h[i] = g[i]
    <3>1. \A i \in 0..n : g[i] = IF i = 0 THEN U ELSE ApplyTransaction(g[i - 1], txs[i])
      BY <2>1 DEF Applies
    <3>2. \A i \in 0..n : h[i] = IF i = 0 THEN U ELSE ApplyTransaction(g[i - 1], txs[i])
      OBVIOUS
    <3> QED BY <3>1, <3>2
  <2>3. Applies(U, txs, h, n + 1)
    <3>1. \A i \in 0..(n + 1) : i # 0 => i - 1 \in 0..n
      OBVIOUS
    <3> QED BY <2>2, <3>1 DEF Applies
  <2> HIDE DEF h
  <2> QED BY <2>3
<1> HIDE DEF Good
<1>3. \A n \in Nat : n \in Good
  BY <1>1, <1>2, IntervalInduction
<1> QED BY <1>3 DEF Good

\* StatesThrough satisfies its equation.
LEMMA StatesUnfold ==
    ASSUME NEW U, NEW txs, Len(txs) \in Nat
    PROVE  /\ StatesThrough(U, txs)[0] = U
           /\ \A i \in 1..Len(txs) : StatesThrough(U, txs)[i] =
                 ApplyTransaction(StatesThrough(U, txs)[i - 1], txs[i])
<1> DEFINE state == StatesThrough(U, txs)
<1>1. state = CHOOSE g : Applies(U, txs, g, Len(txs))
  BY DEF StatesThrough, Applies
<1>2. Applies(U, txs, state, Len(txs))
  BY <1>1, AppliesExists
<1> HIDE DEF state
<1>3. \A i \in 0..Len(txs) : state[i] =
         IF i = 0 THEN U ELSE ApplyTransaction(state[i - 1], txs[i])
  BY <1>2 DEF Applies
<1>4. state[0] = U /\ \A i \in 1..Len(txs) : state[i] = ApplyTransaction(state[i - 1], txs[i])
  <2>1. 0 \in 0..Len(txs) /\ \A i \in 1..Len(txs) : i \in 0..Len(txs) /\ i # 0
    OBVIOUS
  <2> QED BY <1>3, <2>1
<1> QED BY <1>4 DEF state

\* The states between the blocks of a chain.
StatesAlong(chain, g, n) ==
    g = [ i \in 0..n |-> IF i = 0 THEN Bootstrap ELSE ApplyBlock(g[i - 1], chain[i]) ]

\* There is such a function, for every length.
LEMMA StatesAlongExist ==
    ASSUME NEW chain
    PROVE  \A n \in Nat : \E g : StatesAlong(chain, g, n)
<1> DEFINE Good == { n \in Nat : \E g : StatesAlong(chain, g, n) }
<1>1. 0 \in Good
  <2> DEFINE g == [ i \in 0..0 |-> Bootstrap ]
  <2>1. StatesAlong(chain, g, 0)
    BY DEF StatesAlong
  <2> HIDE DEF g
  <2> QED BY <2>1
<1>2. ASSUME NEW n \in Nat, n \in Good PROVE n + 1 \in Good
  <2>1. PICK g : StatesAlong(chain, g, n)
    BY <1>2
  <2> DEFINE h == [ i \in 0..(n + 1) |->
                      IF i = 0 THEN Bootstrap ELSE ApplyBlock(g[i - 1], chain[i]) ]
  <2>2. \A i \in 0..n : h[i] = g[i]
    <3>1. \A i \in 0..n : g[i] = IF i = 0 THEN Bootstrap ELSE ApplyBlock(g[i - 1], chain[i])
      BY <2>1 DEF StatesAlong
    <3>2. \A i \in 0..n : h[i] = IF i = 0 THEN Bootstrap ELSE ApplyBlock(g[i - 1], chain[i])
      OBVIOUS
    <3> QED BY <3>1, <3>2
  <2>3. StatesAlong(chain, h, n + 1)
    <3>1. \A i \in 0..(n + 1) : i # 0 => i - 1 \in 0..n
      OBVIOUS
    <3> QED BY <2>2, <3>1 DEF StatesAlong
  <2> HIDE DEF h
  <2> QED BY <2>3
<1> HIDE DEF Good
<1>3. \A n \in Nat : n \in Good
  BY <1>1, <1>2, IntervalInduction
<1> QED BY <1>3 DEF Good

\* UtxoThrough satisfies its equation.
LEMMA ReplayUnfolds ==
    ASSUME NEW chain, Len(chain) \in Nat
    PROVE  /\ UtxoThrough(chain)[0] = Bootstrap
           /\ \A i \in 1..Len(chain) :
                 UtxoThrough(chain)[i] = ApplyBlock(UtxoThrough(chain)[i - 1], chain[i])
<1> DEFINE state == UtxoThrough(chain)
<1>1. state = CHOOSE g : StatesAlong(chain, g, Len(chain))
  BY DEF UtxoThrough, StatesAlong
<1>2. StatesAlong(chain, state, Len(chain))
  BY <1>1, StatesAlongExist
<1> HIDE DEF state
<1>3. \A i \in 0..Len(chain) : state[i] =
         IF i = 0 THEN Bootstrap ELSE ApplyBlock(state[i - 1], chain[i])
  BY <1>2 DEF StatesAlong
<1>4. state[0] = Bootstrap
      /\ \A i \in 1..Len(chain) : state[i] = ApplyBlock(state[i - 1], chain[i])
  <2>1. 0 \in 0..Len(chain) /\ \A i \in 1..Len(chain) : i \in 0..Len(chain) /\ i # 0
    OBVIOUS
  <2> QED BY <1>3, <2>1
<1> QED BY <1>4 DEF state

-----------------------------------------------------------------------------
FeesOf(txs) == [ i \in 2..Len(txs) |-> Fee(txs[i]) ]

\* A valid block adds what its coinbase pays, less the fees it collects.
LEMMA BlockWorth ==
    ASSUME NEW U, Held(U), NEW b \in Block, ValidBlock(U, BlockOf[b]),
           \A i \in DOMAIN BlockOf[b].transactions : Unwrapped(BlockOf[b].transactions[i])
    PROVE  /\ Held(ApplyBlock(U, BlockOf[b]))
           /\ BlockFees(BlockOf[b].transactions) \in Nat
           /\ TotalOutputValue(BlockOf[b].transactions[1]) \in Nat
           /\ Worth(ApplyBlock(U, BlockOf[b])) + BlockFees(BlockOf[b].transactions)
                <= Worth(U) + TotalOutputValue(BlockOf[b].transactions[1])
<1> DEFINE txs == BlockOf[b].transactions
           n == Len(txs)
           state == StatesThrough(U, txs)
           fees == FeesOf(txs)
           paid == TotalOutputValue(txs[1])
<1>1. /\ n \in Nat /\ DOMAIN txs = 1..n /\ txs \in Seq(Range(txs))
      /\ \A i \in 1..n : txs[i] \in Ledgered /\ Unwrapped(txs[i])
  <2>1. txs \in Seq(Range(txs))
    BY BlockAssumption
  <2> QED BY <2>1, LedgeredTypes
<1>2. n >= 1 /\ IsCoinbase(txs[1]) /\ \A i \in 2..n : ValidSpend(state[i - 1], txs[i])
  <2>1. txs # <<>>
    BY DEF ValidBlock
  <2> QED BY <1>1, <2>1 DEF ValidBlock
<1>3. state[0] = U /\ \A i \in 1..n : state[i] = ApplyTransaction(state[i - 1], txs[i])
  BY <1>1, StatesUnfold
<1>4. ApplyBlock(U, BlockOf[b]) = state[n]
  BY DEF ApplyBlock
<1>5. BlockFees(txs) = SumFunctionOnSet(fees, 2..n)
  BY DEF BlockFees, FeesOf, SumFunction
<1>6. \A i \in 2..n : fees[i] = Fee(txs[i])
  BY DEF FeesOf
<1> HIDE DEF txs, n, state, fees
<1>7. paid \in Nat
  BY <1>1, <1>2, CreatedWorth, LedgerAssumption
<1> HIDE DEF paid
<1> DEFINE Kept(k) == /\ Held(state[k])
                      /\ \A i \in 2..k : fees[i] \in Nat
                      /\ Worth(state[k]) + SumFunctionOnSet(fees, 2..k) <= Worth(U) + paid
           Good == { j \in Nat : j + 1 <= n => Kept(j + 1) }
<1>8. 0 \in Good
  <2>1. /\ Held(ApplyTransaction(U, txs[1]))
        /\ Worth(ApplyTransaction(U, txs[1])) <= Worth(U) + paid
    BY <1>1, <1>2, CoinbaseWorth DEF paid
  <2>2. state[1] = ApplyTransaction(U, txs[1])
    <3>1. 1 \in 1..n /\ 1 - 1 = 0
      BY <1>1, <1>2
    <3> QED BY <1>3, <3>1
  <2>3. 2..1 = {} /\ SumFunctionOnSet(fees, {}) = 0
    BY SumOfNone
  <2>4. Worth(state[1]) \in Nat
    BY <2>1, <2>2, WorthOfSet DEF Held
  <2>5. Kept(1)
    BY <2>1, <2>2, <2>3, <2>4
  <2> QED BY <2>5
<1>9. ASSUME NEW j \in Nat, j \in Good PROVE j + 1 \in Good
  <2> SUFFICES ASSUME (j + 1) + 1 <= n PROVE Kept((j + 1) + 1)
    OBVIOUS
  <2> DEFINE k == j + 1
             m == k + 1
  <2>1. Kept(k) /\ k \in Nat /\ k >= 1 /\ m \in 2..n /\ m - 1 = k
    BY <1>1, <1>9
  <2> HIDE DEF k
  <2>2. state[m] = ApplyTransaction(state[k], txs[m]) /\ ValidSpend(state[k], txs[m])
    <3>1. m \in 1..n
      BY <2>1
    <3> QED BY <1>2, <1>3, <2>1, <3>1
  <2>3. /\ Held(state[m]) /\ Fee(txs[m]) \in Nat
        /\ Worth(state[m]) + Fee(txs[m]) <= Worth(state[k])
    <3>1. txs[m] \in Ledgered /\ Unwrapped(txs[m]) /\ Held(state[k])
      BY <1>1, <2>1
    <3> QED BY <2>2, <3>1, PaymentWorth
  <2>4. \A i \in 2..m : fees[i] \in Nat
    BY <1>6, <2>1, <2>3
  <2>5. SumFunctionOnSet(fees, 2..m) = SumFunctionOnSet(fees, 2..k) + Fee(txs[m])
    <3>1. 2 \in Int /\ k \in Int /\ 2 <= k + 1 /\ \A i \in 2..(k + 1) : fees[i] \in Int
      BY <2>1, <2>4
    <3>2. SumFunctionOnSet(fees, 2..(k + 1)) = SumFunctionOnSet(fees, 2..k) + fees[k + 1]
      BY <3>1, SumToNext
    <3> QED BY <1>6, <2>1, <3>2
  <2>6. /\ Worth(state[m]) \in Nat /\ Worth(state[k]) \in Nat /\ Worth(U) \in Nat
        /\ SumFunctionOnSet(fees, 2..k) \in Nat
    <3>1. IsFiniteSet(2..k) /\ \A i \in 2..k : fees[i] \in Nat
      BY <2>1, FS_Interval
    <3> QED BY <2>1, <2>3, <3>1, WorthOfSet, SumIsNat DEF Held
  <2> DEFINE F == SumFunctionOnSet(fees, 2..k)
             G == SumFunctionOnSet(fees, 2..m)
  <2>7. Worth(state[m]) + G <= Worth(U) + paid
    <3>1. Worth(state[k]) + F <= Worth(U) + paid /\ G = F + Fee(txs[m]) /\ F \in Nat
      BY <2>1, <2>5, <2>6
    <3> HIDE DEF F, G
    <3> QED BY <1>7, <2>3, <2>6, <3>1
  <2>8. Kept(m)
    BY <2>3, <2>4, <2>7
  <2> QED BY <2>8 DEF k
<1>10. Kept(n)
  <2>1. n - 1 \in Nat /\ (n - 1) + 1 = n
    BY <1>1, <1>2
  <2>2. n - 1 \in Good
    <3> HIDE DEF Good
    <3> QED BY <1>8, <1>9, <2>1, IntervalInduction
  <2> QED BY <1>1, <2>1, <2>2
<1>11. SumFunctionOnSet(fees, 2..n) \in Nat
  <2>1. IsFiniteSet(2..n) /\ \A i \in 2..n : fees[i] \in Nat
    BY <1>1, <1>10, FS_Interval
  <2> QED BY <2>1, SumIsNat
<1> QED BY <1>4, <1>5, <1>7, <1>10, <1>11 DEF txs, paid

-----------------------------------------------------------------------------
\* No transaction of the best chain has outputs that sum to 2^64 or more.
NoSumWraps ==
    \A i \in DOMAIN best_chain : \A j \in DOMAIN BlockOf[best_chain[i]].transactions :
        Unwrapped(BlockOf[best_chain[i]].transactions[j])

\* The subsidy of every height.
Subsidy == RewardAt(Schedule)

\* The subsidy of a height is a natural.
LEMMA SubsidyIsNat == \A h \in Nat : Subsidy[h] \in Nat /\ Subsidy[h] = BlockReward(Schedule, h)
BY ScheduleTypes, LedgerAssumption DEF Subsidy

\* The genesis coinbase pays nothing.
LEMMA GenesisWorth ==
    ASSUME Unwrapped(BlockOf[Genesis].transactions[1]),
           BlockOf[Genesis].transactions # <<>>
    PROVE  TotalOutputValue(BlockOf[Genesis].transactions[1]) = 0
<1> DEFINE tx == BlockOf[Genesis].transactions[1]
           C == Creates(tx)
<1>1. tx \in Ledgered
  <2> DEFINE txs == BlockOf[Genesis].transactions
  <2>1. Genesis \in Block /\ txs \in Seq(Range(txs))
    BY BlockAssumption
  <2>2. 1 \in DOMAIN txs
    BY <2>1
  <2> QED BY <2>1, <2>2, LedgeredTypes
<1>2. /\ C \subseteq Outpoints /\ IsFiniteSet(C)
      /\ TotalOutputValue(tx) = Worth(C) /\ Worth(C) \in Nat
  BY <1>1, CreatedWorth
<1>3. \A o \in C : OutputAt(o).value = 0
  BY GenesisAssumption
<1> DEFINE zero == [ o \in C |-> 0 ]
           D == 0..0
<1>4. \A o \in C : Value[o] \in Int /\ Value[o] = zero[o]
  BY <1>2, <1>3, OutpointValue
<1>5. Worth(C) = SumFunctionOnSet(zero, C)
  <2> HIDE DEF C, zero
  <2> QED BY <1>2, <1>4, SumOfAgreeing DEF Worth
<1>6. SumFunctionOnSet(zero, C) = 0
  <2> HIDE DEF C
  <2> QED BY <1>2, SumOfZeros
<1> QED BY <1>2, <1>5, <1>6

\* The subsidy of each block of the best chain.
Claimed == [ i \in 1..Len(best_chain) |-> BlockReward(Schedule, BlockOf[best_chain[i]].height) ]

\* After k blocks of the best chain the set is worth no more than the
\* bootstrap outputs and the subsidies of the heights of blocks 2..k.
LEMMA ChainWorth ==
    ASSUME StoreInv, NoSumWraps
    PROVE  /\ SupplyWithinSubsidies
           /\ ValueOf(utxo_set) \in Nat /\ ValueOf(Bootstrap) \in Nat
<1> DEFINE chain == BlocksOf(best_chain)
           n == Len(best_chain)
           state == UtxoThrough(chain)
           start == Worth(Bootstrap)
<1>1. /\ n \in Nat /\ n >= 1 /\ DOMAIN best_chain = 1..n
      /\ best_chain[1] = Genesis
      /\ \A i \in 1..n : best_chain[i] \in Block /\ BlockOf[best_chain[i]].height \in Nat
  <2>1. best_chain \in Seq(Block) /\ BestChainLinked
    BY StoreInvLinks DEF StoreInv, TypeOK
  <2>2. best_chain # <<>> /\ best_chain[1] = Genesis
    BY <2>1 DEF BestChainLinked
  <2>3. n \in Nat /\ n >= 1 /\ DOMAIN best_chain = 1..n /\ \A i \in 1..n : best_chain[i] \in Block
    BY <2>1, <2>2
  <2> QED BY <2>2, <2>3, BlockAssumption
<1>2. Len(chain) = n /\ DOMAIN chain = 1..n /\ \A i \in 1..n : chain[i] = BlockOf[best_chain[i]]
  <2>1. DOMAIN chain = 1..n /\ \A i \in 1..n : chain[i] = BlockOf[best_chain[i]]
    BY <1>1 DEF BlocksOf
  <2>2. chain = [ i \in 1..n |-> BlockOf[best_chain[i]] ]
    BY <1>1 DEF BlocksOf
  <2>3. chain \in Seq({ BlockOf[b] : b \in Block })
    BY <1>1, <2>2
  <2> QED BY <1>1, <2>1, <2>3
<1>3. /\ state[0] = Bootstrap
      /\ \A i \in 1..n : state[i] = ApplyBlock(state[i - 1], chain[i])
  BY <1>1, <1>2, ReplayUnfolds
<1>4. \A i \in 1..n : ValidBlock(state[i - 1], chain[i])
  BY <1>2 DEF StoreInv, LongestValidChain, Replays, ChainIsValid, ValidChain
<1>5. utxo_set = state[n]
  BY <1>2 DEF StoreInv, UtxoIsReplayed, UtxoOf
<1>6. Held(Bootstrap) /\ start \in Nat /\ ValueOf(Bootstrap) = start
  BY LedgeredTypes, LedgerAssumption, WorthOfSet DEF Held
<1>13. \A i \in 1..n : /\ Claimed[i] \in Nat
                        /\ Claimed[i] = BlockReward(Schedule, BlockOf[best_chain[i]].height)
  BY <1>1, SubsidyIsNat DEF Claimed
<1> HIDE DEF chain, n, state, start
\* One block.
<1>7. ASSUME NEW i \in 1..n, Held(state[i - 1])
      PROVE  /\ Held(state[i])
             /\ i = 1 => Worth(state[i]) <= Worth(state[i - 1])
             /\ i > 1 => Worth(state[i]) <= Worth(state[i - 1]) + Claimed[i]
  <2> DEFINE b == best_chain[i]
             txs == BlockOf[b].transactions
             fees == BlockFees(txs)
             paid == TotalOutputValue(txs[1])
  <2>1. b \in Block /\ chain[i] = BlockOf[b]
    BY <1>1, <1>2
  <2>2. ValidBlock(state[i - 1], BlockOf[b]) /\ state[i] = ApplyBlock(state[i - 1], BlockOf[b])
    BY <1>3, <1>4, <2>1
  <2>3. \A j \in DOMAIN txs : Unwrapped(txs[j])
    BY <1>1 DEF NoSumWraps
  <2>4. /\ Held(state[i]) /\ fees \in Nat /\ paid \in Nat
        /\ Worth(state[i]) + fees <= Worth(state[i - 1]) + paid
    BY <1>7, <2>1, <2>2, <2>3, BlockWorth
  <2>5. Worth(state[i]) \in Nat /\ Worth(state[i - 1]) \in Nat
    BY <1>7, <2>4, WorthOfSet DEF Held
  <2>6. CASE i = 1
    <3>1. b = Genesis
      BY <1>1, <2>6
    <3>2. txs # <<>> /\ 1 \in DOMAIN txs
      <4>1. txs # <<>>
        BY <2>2 DEF ValidBlock
      <4>2. txs \in Seq(Range(txs))
        BY <2>1, BlockAssumption
      <4> QED BY <4>1, <4>2
    <3>3. paid = 0
      BY <2>3, <3>1, <3>2, GenesisWorth
    <3> HIDE DEF paid, fees
    <3> QED BY <2>4, <2>5, <2>6, <3>3
  <2>7. CASE i > 1
    <3>1. paid <= Claimed[i] + fees /\ Claimed[i] \in Nat
      <4>1. paid <= BlockReward(Schedule, BlockOf[b].height) + fees
        BY <2>2 DEF ValidBlock, ValidReward
      <4> QED BY <1>13, <4>1
    <3> HIDE DEF paid, fees
    <3> QED BY <2>4, <2>5, <2>7, <3>1
  <2> QED BY <1>1, <2>4, <2>6, <2>7
<1> DEFINE Kept(k) == /\ Held(state[k])
                      /\ Worth(state[k]) <= start + SumFunctionOnSet(Claimed, 2..k)
           Good == { j \in Nat : j + 1 <= n => Kept(j + 1) }
<1>8. 0 \in Good
  <2>1. 1 \in 1..n /\ 1 - 1 = 0 /\ Held(state[0]) /\ Worth(state[0]) = start
    BY <1>1, <1>3, <1>6 DEF start
  <2>2. Held(state[1]) /\ Worth(state[1]) <= start
    BY <1>7, <2>1
  <2>3. 2..1 = {} /\ SumFunctionOnSet(Claimed, {}) = 0
    BY SumOfNone
  <2>4. Kept(1)
    BY <1>6, <2>2, <2>3
  <2> QED BY <2>4
<1>9. ASSUME NEW j \in Nat, j \in Good PROVE j + 1 \in Good
  <2> SUFFICES ASSUME (j + 1) + 1 <= n PROVE Kept((j + 1) + 1)
    OBVIOUS
  <2> DEFINE k == j + 1
             m == k + 1
  <2>1. /\ Kept(k) /\ k \in Nat /\ k >= 1 /\ m \in 1..n /\ m > 1 /\ m - 1 = k
    BY <1>1, <1>9
  <2> HIDE DEF k
  <2>2. Held(state[m]) /\ Worth(state[m]) <= Worth(state[k]) + Claimed[m]
    BY <1>7, <2>1
  <2>3. SumFunctionOnSet(Claimed, 2..m) = SumFunctionOnSet(Claimed, 2..k) + Claimed[m]
    <3>1. k \in Int /\ 2 <= k + 1 /\ m = k + 1 /\ \A i \in 2..(k + 1) : Claimed[i] \in Int
      <4>1. \A i \in 2..m : i \in 1..n
        BY <1>1, <2>1
      <4> QED BY <1>13, <2>1, <4>1
    <3>2. SumFunctionOnSet(Claimed, 2..(k + 1)) = SumFunctionOnSet(Claimed, 2..k) + Claimed[k + 1]
      BY <3>1, SumToNext
    <3> QED BY <3>1, <3>2
  <2> DEFINE F == SumFunctionOnSet(Claimed, 2..k)
  <2>4. /\ Worth(state[m]) \in Nat /\ Worth(state[k]) \in Nat /\ Claimed[m] \in Nat
        /\ F \in Nat
    <3>1. IsFiniteSet(2..k) /\ \A i \in 2..k : Claimed[i] \in Nat
      <4>1. \A i \in 2..k : i \in 1..n
        BY <1>1, <2>1
      <4>2. 2 \in Int /\ k \in Int
        BY <2>1
      <4>3. IsFiniteSet(2..k)
        BY <4>2, FS_Interval
      <4> QED BY <1>13, <4>1, <4>3
    <3> QED BY <1>13, <2>1, <2>2, <3>1, WorthOfSet, SumIsNat DEF Held
  <2>5. Worth(state[m]) <= start + SumFunctionOnSet(Claimed, 2..m)
    <3>1. Worth(state[k]) <= start + F
      BY <2>1
    <3>2. SumFunctionOnSet(Claimed, 2..m) = F + Claimed[m]
      BY <2>3
    <3> HIDE DEF F
    <3> QED BY <1>6, <2>2, <2>4, <3>1, <3>2
  <2>6. Kept(m)
    BY <2>1, <2>2, <2>5
  <2> QED BY <2>6 DEF k
<1>10. Kept(n)
  <2>1. n - 1 \in Nat /\ (n - 1) + 1 = n
    BY <1>1
  <2>2. n - 1 \in Good
    <3> HIDE DEF Good
    <3> QED BY <1>8, <1>9, <2>1, IntervalInduction
  <2> QED BY <1>1, <2>1, <2>2
<1>11. ValueOf(utxo_set) = Worth(state[n]) /\ Worth(state[n]) \in Nat
  BY <1>5, <1>10, WorthOfSet DEF Held
<1>12. SumFunction([ i \in 2..n |-> BlockReward(Schedule, BlockOf[best_chain[i]].height) ])
         = SumFunctionOnSet(Claimed, 2..n)
  <2> DEFINE S == 2..n
             f == [ i \in S |-> BlockReward(Schedule, BlockOf[best_chain[i]].height) ]
  <2>1. IsFiniteSet(S) /\ S \subseteq 1..n
    BY <1>1, FS_Interval
  <2>2. DOMAIN f = S /\ \A i \in S : f[i] \in Int /\ f[i] = Claimed[i]
    BY <1>13, <2>1
  <2> HIDE DEF f, S
  <2>3. SumFunctionOnSet(f, S) = SumFunctionOnSet(Claimed, S)
    BY <2>1, <2>2, SumOfAgreeing
  <2>4. SumFunction(f) = SumFunctionOnSet(Claimed, S)
    BY <2>2, <2>3 DEF SumFunction
  <2> QED BY <2>4 DEF f, S
<1> QED BY <1>1, <1>6, <1>10, <1>11, <1>12 DEF SupplyWithinSubsidies, n

\* The outputs unspent at the tip are never worth more than the bootstrap
\* outputs and the subsidies of the heights the best chain claims: no fee, fork or
\* reorganisation creates value.  Provided that no sum wraps: total_output_value
\* adds u64 values unchecked, so outputs of 2^64 or more together would pass for
\* few, and block validation does not bound them.
THEOREM SupplyIsSubsidised == Spec => [](NoSumWraps => SupplyWithinSubsidies)
<1>1. StoreInv => (NoSumWraps => SupplyWithinSubsidies)
  BY ChainWorth
<1> QED BY <1>1, StoreInvariant, PTL

\* Without strays a block's height is its place in the best chain.
LEMMA HeightIsPlace ==
    ASSUME StoreInv, NoStray(best_chain)
    PROVE  \A i \in 1..Len(best_chain) : BlockOf[best_chain[i]].height = i - 1
<1> DEFINE n == Len(best_chain)
           Good == { j \in Nat : j + 1 <= n => BlockOf[best_chain[j + 1]].height = j }
<1>1. /\ n \in Nat /\ DOMAIN best_chain = 1..n /\ best_chain[1] = Genesis
      /\ \A i \in 2..n : BlockOf[best_chain[i]].height = BlockOf[best_chain[i - 1]].height + 1
  <2>1. best_chain \in Seq(Block) /\ BestChainLinked
    BY StoreInvLinks DEF StoreInv, TypeOK
  <2> QED BY <2>1 DEF BestChainLinked, NoStray
<1> HIDE DEF n
<1>2. 0 \in Good
  BY <1>1, BlockAssumption
<1>3. ASSUME NEW j \in Nat, j \in Good PROVE j + 1 \in Good
  <2> SUFFICES ASSUME (j + 1) + 1 <= n PROVE BlockOf[best_chain[(j + 1) + 1]].height = j + 1
    OBVIOUS
  <2>1. j + 2 \in 2..n /\ (j + 2) - 1 = j + 1 /\ (j + 1) + 1 = j + 2
        /\ BlockOf[best_chain[j + 1]].height = j
    BY <1>1, <1>3
  <2> QED BY <1>1, <2>1
<1>4. ASSUME NEW i \in 1..n PROVE BlockOf[best_chain[i]].height = i - 1
  <2>1. i - 1 \in Nat /\ (i - 1) + 1 = i /\ i <= n
    BY <1>1
  <2>2. i - 1 \in Good
    <3> HIDE DEF Good
    <3> QED BY <1>2, <1>3, <2>1, IntervalInduction
  <2> QED BY <2>1, <2>2
<1> QED BY <1>4 DEF n

\* With or without strays, no block is higher than its place.
LEMMA HeightWithinPlace ==
    ASSUME StoreInv
    PROVE  \A i \in 1..Len(best_chain) : BlockOf[best_chain[i]].height <= i - 1
<1> DEFINE n == Len(best_chain)
           H(i) == BlockOf[best_chain[i]].height
           Good == { j \in Nat : j + 1 <= n => H(j + 1) <= j }
<1>1. /\ n \in Nat /\ best_chain[1] = Genesis
      /\ \A i \in 2..n : H(i) = 0 \/ H(i) = H(i - 1) + 1
      /\ \A i \in 1..n : H(i) \in Nat
  <2>1. best_chain \in Seq(Block) /\ BestChainLinked
    BY StoreInvLinks DEF StoreInv, TypeOK
  <2>2. \A b \in Block : BlockOf[b].height \in Nat
    BY BlockAssumption
  <2>3. \A i \in 1..n : best_chain[i] \in Block
    BY <2>1
  <2>4. \A i \in 2..n : BlockOf[best_chain[i]].height = 0
                          \/ BlockOf[best_chain[i]].height = BlockOf[best_chain[i - 1]].height + 1
    BY <2>1 DEF BestChainLinked, Stray
  <2>5. n \in Nat /\ best_chain[1] = Genesis
    BY <2>1 DEF BestChainLinked
  <2> QED BY <2>2, <2>3, <2>4, <2>5
<1>2. 0 \in Good
  BY <1>1, BlockAssumption
<1> HIDE DEF n, H
<1>3. ASSUME NEW j \in Nat, j \in Good PROVE j + 1 \in Good
  <2> SUFFICES ASSUME (j + 1) + 1 <= n PROVE H((j + 1) + 1) <= j + 1
    OBVIOUS
  <2>1. j + 2 \in 2..n /\ (j + 2) - 1 = j + 1 /\ (j + 1) + 1 = j + 2 /\ H(j + 1) <= j
        /\ j + 1 \in 1..n
    BY <1>1, <1>3
  <2>2. H(j + 2) = 0 \/ H(j + 2) = H(j + 1) + 1
    BY <1>1, <2>1
  <2>3. H(j + 1) \in Nat
    BY <1>1, <2>1
  <2> QED BY <2>1, <2>2, <2>3
<1>4. ASSUME NEW i \in 1..n PROVE H(i) <= i - 1
  <2>1. i - 1 \in Nat /\ (i - 1) + 1 = i /\ i <= n
    BY <1>1
  <2>2. i - 1 \in Good
    <3> HIDE DEF Good
    <3> QED BY <1>2, <1>3, <2>1, IntervalInduction
  <2> QED BY <2>1, <2>2
<1> QED BY <1>4 DEF n, H

\* The outputs unspent at the tip against the cap.
SupplyWithinMaximum == ValueOf(utxo_set) <= ValueOf(Bootstrap) + Schedule.maximum_supply

\* The coins in existence never exceed the configured maximum while the best
\* chain has no stray; with one, subsidies begin again and it may be exceeded.
THEOREM SupplyIsCapped == Spec => [](NoSumWraps /\ NoStray(best_chain) => SupplyWithinMaximum)
<1>1. StoreInv /\ NoSumWraps /\ NoStray(best_chain) => SupplyWithinMaximum
  <2> SUFFICES ASSUME StoreInv, NoSumWraps, NoStray(best_chain) PROVE SupplyWithinMaximum
    OBVIOUS
  <2> DEFINE n == Len(best_chain)
             h == n - 1
             F == SumFunctionOnSet(Subsidy, 1..h)
             G == SumFunctionOnSet(Subsidy, 0..h)
             S == 2..n
             f == [ i \in S |-> BlockReward(Schedule, BlockOf[best_chain[i]].height) ]
  <2>1. h \in Nat /\ n \in Nat /\ IsSchedule(Schedule) /\ Schedule.maximum_supply \in Nat
    <3>1. best_chain \in Seq(Block) /\ best_chain # <<>>
      BY StoreInvLinks DEF BestChainLinked, StoreInv, TypeOK
    <3> QED BY <3>1, LedgerAssumption DEF IsSchedule
  <2>2. G <= Schedule.maximum_supply
    BY <2>1, RewardsWithinCap DEF Subsidy
  <2>3. SumFunction(f) = F /\ F \in Nat
    <3> DEFINE place == [ i \in 1..h |-> i + 1 ]
               late == [ i \in 1..h |-> Subsidy[i] ]
    <3>1. 1 \in Nat /\ h \in Int
      BY <2>1
    <3>2. F \in Nat
      BY <2>1, <3>1, RewardsAreSummed DEF Subsidy
    <3>3. \A i \in S : f[i] = Subsidy[i - 1] /\ f[i] \in Int
      <4>1. ASSUME NEW i \in S PROVE f[i] = Subsidy[i - 1] /\ f[i] \in Int
        <5>1. i - 1 \in Nat /\ BlockOf[best_chain[i]].height = i - 1
          BY <2>1, <4>1, HeightIsPlace
        <5> QED BY <4>1, <5>1, SubsidyIsNat
      <4> QED BY <4>1
    <3>4. { place[i] : i \in 1..h } = S
      <4>1. \A i \in S : i - 1 \in 1..h /\ place[i - 1] = i
        BY <2>1
      <4>2. \A i \in 1..h : place[i] \in S
        BY <2>1
      <4> QED BY <4>1, <4>2
    <3>5. \A i \in 1..h : late[i] = f[place[i]] /\ f[place[i]] \in Int
      <4>1. ASSUME NEW i \in 1..h PROVE late[i] = f[place[i]] /\ f[place[i]] \in Int
        <5>1. place[i] \in S /\ place[i] - 1 = i /\ late[i] = Subsidy[i]
          BY <2>1, <4>1
        <5> HIDE DEF place, late, f, S
        <5> QED BY <3>3, <5>1
      <4> QED BY <4>1
    <3>6. \A i, j \in 1..h : place[i] = place[j] => i = j
      OBVIOUS
    <3>7. SumFunctionOnSet(f, S) = SumFunctionOnSet(late, 1..h)
      <4> HIDE DEF place, late, f, S, h
      <4> QED BY <2>1, <3>4, <3>5, <3>6, SumOfImage
    <3>8. SumFunctionOnSet(late, 1..h) = F
      <4>1. IsFiniteSet(1..h)
        BY <2>1, FS_Interval
      <4>2. \A i \in 1..h : late[i] \in Int /\ late[i] = Subsidy[i]
        BY <2>1, SubsidyIsNat
      <4> HIDE DEF late, h
      <4> QED BY <4>1, <4>2, SumOfAgreeing
    <3>9. DOMAIN f = S
      OBVIOUS
    <3> HIDE DEF f, S, late, F
    <3>10. SumFunction(f) = SumFunctionOnSet(f, S)
      BY <3>9, Zenon DEF SumFunction
    <3> QED BY <3>2, <3>7, <3>8, <3>10
  <2>4. G = SumFunctionOnSet(Subsidy, 0..0) + F
    <3>1. 1 \in Nat /\ h \in Int /\ 1 <= h + 1 /\ 1 - 1 = 0
      BY <2>1
    <3>2. G = SumFunctionOnSet(Subsidy, 0..(1 - 1)) + F
      BY <2>1, <3>1, IntervalsAdjoin DEF Subsidy
    <3> QED BY <3>1, <3>2
  <2>5. SumFunctionOnSet(Subsidy, 0..0) \in Nat
    <3>1. 0 \in Nat /\ 0 \in Int
      OBVIOUS
    <3> QED BY <2>1, <3>1, RewardsAreSummed DEF Subsidy
  <2>6. ValueOf(utxo_set) <= ValueOf(Bootstrap) + F
    <3>1. ValueOf(utxo_set) <= ValueOf(Bootstrap) + SumFunction(f)
      BY ChainWorth DEF SupplyWithinSubsidies
    <3> QED BY <2>3, <3>1
  <2>7. ValueOf(utxo_set) \in Int /\ ValueOf(Bootstrap) \in Int
    BY ChainWorth
  <2> HIDE DEF F, G, h, n, f, S
  <2> QED BY <2>1, <2>2, <2>3, <2>4, <2>5, <2>6, <2>7 DEF SupplyWithinMaximum
<1>2. StoreInv => (NoSumWraps /\ NoStray(best_chain) => SupplyWithinMaximum)
  BY <1>1
<1> QED BY <1>2, StoreInvariant, PTL

-----------------------------------------------------------------------------
\* What the first k transactions of txs created and spent.
Created(txs, k) == Bootstrap \cup UNION { Creates(txs[j]) : j \in 1..k }
Spent(txs, k) == UNION { Spends(txs[j]) : j \in 1..k }

Fresh(txs) == IsInjective(txs) /\ \A o \in Bootstrap : o[1] \notin ToSet(txs)

\* U is what txs leave unspent.
Accounts(txs, U) ==
    Fresh(txs) =>
      /\ U = Created(txs, Len(txs)) \ Spent(txs, Len(txs))
      /\ \A k \in DOMAIN txs : Spends(txs[k]) \subseteq Created(txs, k - 1) \ Spent(txs, k - 1)

\* One more transaction that spends what is there.
LEMMA AccountsNext ==
    ASSUME NEW T, NEW txs \in Seq(T), NEW tx \in T, NEW U, Accounts(txs, U), Spends(tx) \subseteq U
    PROVE  Accounts(Append(txs, tx), ApplyTransaction(U, tx))
<1> DEFINE all == Append(txs, tx)
           n == Len(txs)
<1> SUFFICES ASSUME Fresh(all)
             PROVE  /\ ApplyTransaction(U, tx) = Created(all, n + 1) \ Spent(all, n + 1)
                    /\ \A k \in 1..(n + 1) :
                         Spends(all[k]) \subseteq Created(all, k - 1) \ Spent(all, k - 1)
  <2>1. Len(all) = n + 1 /\ DOMAIN all = 1..(n + 1)
    OBVIOUS
  <2> HIDE DEF all, n
  <2> QED BY <2>1 DEF Accounts, all
<1>1. /\ n \in Nat /\ DOMAIN txs = 1..n /\ DOMAIN all = 1..(n + 1)
      /\ all[n + 1] = tx /\ \A i \in 1..n : all[i] = txs[i]
  OBVIOUS
<1> HIDE DEF all, n
<1>2. Fresh(txs)
  <2>1. ASSUME NEW i \in 1..n, NEW j \in 1..n, txs[i] = txs[j] PROVE i = j
    <3>1. all[i] = all[j] /\ i \in 1..(n + 1) /\ j \in 1..(n + 1)
      BY <1>1, <2>1
    <3> QED BY <1>1, <3>1 DEF Fresh, IsInjective
  <2>2. ToSet(txs) \subseteq ToSet(all)
    <3>1. \A i \in 1..n : i \in 1..(n + 1)
      BY <1>1
    <3> QED BY <1>1, <3>1 DEF ToSet
  <2> QED BY <1>1, <2>1, <2>2 DEF Fresh, IsInjective
<1>3. /\ U = Created(txs, n) \ Spent(txs, n)
      /\ \A k \in 1..n : Spends(txs[k]) \subseteq Created(txs, k - 1) \ Spent(txs, k - 1)
  BY <1>1, <1>2 DEF Accounts, n
<1>4. ASSUME NEW k \in 0..n
      PROVE  Created(all, k) = Created(txs, k) /\ Spent(all, k) = Spent(txs, k)
  <2>1. \A j \in 1..k : all[j] = txs[j]
    BY <1>1
  <2> QED BY <2>1 DEF Created, Spent
<1>5. /\ Created(all, n + 1) = Created(txs, n) \cup Creates(tx)
      /\ Spent(all, n + 1) = Spent(txs, n) \cup Spends(tx)
  <2>1. 1..(n + 1) = (1..n) \cup {n + 1}
    BY <1>1
  <2> QED BY <1>1, <2>1 DEF Created, Spent
<1>6. Spent(txs, n) \subseteq Created(txs, n)
  <2> SUFFICES ASSUME NEW k \in 1..n PROVE Spends(txs[k]) \subseteq Created(txs, n)
    BY DEF Spent
  <2>1. Spends(txs[k]) \subseteq Created(txs, k - 1)
    BY <1>3
  <2>2. Created(txs, k - 1) \subseteq Created(txs, n)
    <3>1. \A j \in 1..(k - 1) : j \in 1..n
      BY <1>1
    <3> QED BY <3>1 DEF Created
  <2> QED BY <2>1, <2>2
<1>7. Creates(tx) \cap Created(txs, n) = {}
  <2> SUFFICES ASSUME NEW o \in Creates(tx), o \in Created(txs, n) PROVE FALSE
    OBVIOUS
  <2>1. o[1] = tx /\ n + 1 \in 1..(n + 1)
    BY <1>1 DEF Creates
  <2>2. CASE o \in Bootstrap
    <3>1. tx \in ToSet(all)
      BY <1>1, <2>1 DEF ToSet
    <3> QED BY <2>1, <2>2, <3>1 DEF Fresh
  <2>3. CASE \E j \in 1..n : o \in Creates(txs[j])
    <3>1. PICK j \in 1..n : o \in Creates(txs[j])
      BY <2>3
    <3>2. all[j] = tx /\ j \in 1..(n + 1) /\ j # n + 1
      BY <1>1, <2>1, <3>1 DEF Creates
    <3> QED BY <1>1, <2>1, <3>2 DEF Fresh, IsInjective
  <2> QED BY <2>2, <2>3 DEF Created
<1>8. ApplyTransaction(U, tx) = Created(all, n + 1) \ Spent(all, n + 1)
  BY <1>3, <1>5, <1>6, <1>7 DEF ApplyTransaction
<1>9. ASSUME NEW k \in 1..(n + 1)
      PROVE  Spends(all[k]) \subseteq Created(all, k - 1) \ Spent(all, k - 1)
  <2>1. k - 1 \in 0..n
    BY <1>1
  <2>2. CASE k = n + 1
    <3>1. (n + 1) - 1 = n
      BY <1>1
    <3> QED BY <1>1, <1>3, <1>4, <2>1, <2>2, <3>1
  <2>3. CASE k # n + 1
    <3>1. k \in 1..n
      BY <1>1, <2>3
    <3> QED BY <1>1, <1>3, <1>4, <2>1, <3>1
  <2> QED BY <2>2, <2>3
<1> QED BY <1>8, <1>9

\* A valid block.
LEMMA AccountsBlock ==
    ASSUME NEW txs \in Seq(Ledgered), NEW U, Accounts(txs, U),
           NEW b \in Block, ValidBlock(U, BlockOf[b])
    PROVE  /\ BlockOf[b].transactions \in Seq(Ledgered)
           /\ Accounts(txs \o BlockOf[b].transactions, ApplyBlock(U, BlockOf[b]))
<1> DEFINE more == BlockOf[b].transactions
           n == Len(more)
           state == StatesThrough(U, more)
<1>1. more \in Seq(Ledgered) /\ n \in Nat /\ DOMAIN more = 1..n
  <2>1. more \in Seq(Range(more))
    BY BlockAssumption
  <2>2. \A i \in 1..n : more[i] \in Ledgered
    BY <2>1, LedgeredTypes
  <2> QED BY <2>1, <2>2
<1>2. IsCoinbase(more[1]) /\ \A i \in 2..n : ValidSpend(state[i - 1], more[i])
  BY DEF ValidBlock
<1>3. state[0] = U /\ \A i \in 1..n : state[i] = ApplyTransaction(state[i - 1], more[i])
  BY <1>1, StatesUnfold
<1>4. ApplyBlock(U, BlockOf[b]) = state[n]
  BY DEF ApplyBlock
<1> HIDE DEF more, n, state
<1>5. ASSUME NEW i \in 1..n PROVE Spends(more[i]) \subseteq state[i - 1]
  <2>1. CASE i = 1
    BY <1>2, <2>1 DEF IsCoinbase, Spends
  <2>2. CASE i # 1
    <3>1. i \in 2..n
      BY <1>1, <2>2
    <3> QED BY <1>2, <3>1 DEF ValidSpend, Spends
  <2> QED BY <2>1, <2>2
<1> DEFINE part(k) == txs \o SubSeq(more, 1, k)
           Good == { k \in Nat : k <= n => part(k) \in Seq(Ledgered) /\ Accounts(part(k), state[k]) }
<1>6. 0 \in Good
  <2>1. SubSeq(more, 1, 0) = <<>> /\ txs \o <<>> = txs
    BY <1>1
  <2> QED BY <1>3, <2>1
<1>7. ASSUME NEW k \in Nat, k \in Good PROVE k + 1 \in Good
  <2> SUFFICES ASSUME k + 1 <= n
               PROVE  part(k + 1) \in Seq(Ledgered) /\ Accounts(part(k + 1), state[k + 1])
    OBVIOUS
  <2>1. k + 1 \in 1..n /\ (k + 1) - 1 = k /\ more[k + 1] \in Ledgered
    BY <1>1 DEF n
  <2>2. part(k) \in Seq(Ledgered) /\ Accounts(part(k), state[k])
    BY <1>1, <1>7, <2>1
  <2>3. SubSeq(more, 1, k + 1) = Append(SubSeq(more, 1, k), more[k + 1])
    BY <1>1, <2>1 DEF n
  <2>4. SubSeq(more, 1, k) \in Seq(Ledgered)
    BY <1>1, <2>1 DEF n
  <2>5. part(k + 1) = Append(part(k), more[k + 1])
    BY <2>1, <2>3, <2>4
  <2>6. state[k + 1] = ApplyTransaction(state[k], more[k + 1]) /\ Spends(more[k + 1]) \subseteq state[k]
    BY <1>3, <1>5, <2>1
  <2> HIDE DEF part
  <2>7. Accounts(Append(part(k), more[k + 1]), ApplyTransaction(state[k], more[k + 1]))
    BY <2>1, <2>2, <2>6, AccountsNext
  <2>8. Append(part(k), more[k + 1]) \in Seq(Ledgered)
    BY <2>1, <2>2
  <2>9. part(k + 1) \in Seq(Ledgered)
    BY <2>5, <2>8
  <2>10. Accounts(part(k + 1), state[k + 1])
    BY <2>5, <2>6, <2>7
  <2> QED BY <2>9, <2>10
<1>8. n \in Good
  <2> HIDE DEF Good
  <2> QED BY <1>1, <1>6, <1>7, IntervalInduction
<1>9. SubSeq(more, 1, n) = more
  BY <1>1 DEF n
<1>10. Accounts(txs \o more, state[n])
  <2>1. part(n) = txs \o more
    BY <1>9
  <2> HIDE DEF part
  <2>2. Accounts(part(n), state[n])
    BY <1>1, <1>8
  <2> QED BY <2>1, <2>2
<1> QED BY <1>1, <1>4, <1>10 DEF more

Flattens(seqs, g, n) == g = [ i \in 1..n |-> IF i = 1 THEN seqs[i] ELSE g[i - 1] \o seqs[i] ]

\* There is such a function, for every number of blocks.
LEMMA FlattensExists ==
    ASSUME NEW seqs
    PROVE  \A n \in Nat : \E g : Flattens(seqs, g, n)
<1> DEFINE Good == { n \in Nat : \E g : Flattens(seqs, g, n) }
<1>1. 0 \in Good
  <2> DEFINE g == [ i \in 1..0 |-> seqs[i] ]
  <2>1. Flattens(seqs, g, 0)
    BY DEF Flattens
  <2> HIDE DEF g
  <2> QED BY <2>1
<1>2. ASSUME NEW n \in Nat, n \in Good PROVE n + 1 \in Good
  <2>1. PICK g : Flattens(seqs, g, n)
    BY <1>2
  <2> DEFINE h == [ i \in 1..(n + 1) |-> IF i = 1 THEN seqs[i] ELSE g[i - 1] \o seqs[i] ]
  <2>2. \A i \in 1..n : h[i] = g[i]
    <3>1. \A i \in 1..n : g[i] = IF i = 1 THEN seqs[i] ELSE g[i - 1] \o seqs[i]
      BY <2>1 DEF Flattens
    <3>2. \A i \in 1..n : h[i] = IF i = 1 THEN seqs[i] ELSE g[i - 1] \o seqs[i]
      OBVIOUS
    <3> QED BY <3>1, <3>2
  <2>3. Flattens(seqs, h, n + 1)
    <3>1. \A i \in 1..(n + 1) : i # 1 => i - 1 \in 1..n
      OBVIOUS
    <3> QED BY <2>2, <3>1 DEF Flattens
  <2> HIDE DEF h
  <2> QED BY <2>3
<1> HIDE DEF Good
<1>3. \A n \in Nat : n \in Good
  BY <1>1, <1>2, IntervalInduction
<1> QED BY <1>3 DEF Good

\* ChainTransactions is the transactions of one block more.
LEMMA FlattenUnfolds ==
    ASSUME NEW seqs, Len(seqs) \in Nat \ {0}
    PROVE  \E g : /\ FlattenSeq(seqs) = g[Len(seqs)] /\ g[1] = seqs[1]
                  /\ \A i \in 2..Len(seqs) : g[i] = g[i - 1] \o seqs[i]
<1> DEFINE flat == CHOOSE g : Flattens(seqs, g, Len(seqs))
<1>1. FlattenSeq(seqs) = flat[Len(seqs)]
  BY DEF FlattenSeq, Flattens
<1>2. Flattens(seqs, flat, Len(seqs))
  BY FlattensExists
<1> HIDE DEF flat
<1>3. \A i \in 1..Len(seqs) : flat[i] = IF i = 1 THEN seqs[i] ELSE flat[i - 1] \o seqs[i]
  BY <1>2 DEF Flattens
<1>4. flat[1] = seqs[1] /\ \A i \in 2..Len(seqs) : flat[i] = flat[i - 1] \o seqs[i]
  <2>1. 1 \in 1..Len(seqs) /\ \A i \in 2..Len(seqs) : i \in 1..Len(seqs) /\ i # 1
    OBVIOUS
  <2> QED BY <1>3, <2>1
<1> QED BY <1>1, <1>4

\* What the best chain leaves unspent, and what each of its transactions could spend.
LEMMA ChainAccounts ==
    ASSUME StoreInv
    PROVE  ChainTransactions \in Seq(Ledgered) /\ Accounts(ChainTransactions, utxo_set)
<1> DEFINE chain == BlocksOf(best_chain)
           n == Len(best_chain)
           state == UtxoThrough(chain)
           seqs == [ i \in DOMAIN best_chain |-> BlockOf[best_chain[i]].transactions ]
<1>1. /\ n \in Nat \ {0} /\ DOMAIN best_chain = 1..n
      /\ \A i \in 1..n : best_chain[i] \in Block
  <2>1. best_chain \in Seq(Block) /\ BestChainLinked
    BY StoreInvLinks DEF StoreInv, TypeOK
  <2> QED BY <2>1 DEF BestChainLinked
<1>2. Len(chain) = n /\ DOMAIN chain = 1..n /\ \A i \in 1..n : chain[i] = BlockOf[best_chain[i]]
  <2>1. DOMAIN chain = 1..n /\ \A i \in 1..n : chain[i] = BlockOf[best_chain[i]]
    BY <1>1 DEF BlocksOf
  <2>2. chain = [ i \in 1..n |-> BlockOf[best_chain[i]] ]
    BY <1>1 DEF BlocksOf
  <2>3. chain \in Seq({ BlockOf[b] : b \in Block })
    BY <1>1, <2>2
  <2> QED BY <1>1, <2>1, <2>3
<1>3. state[0] = Bootstrap /\ \A i \in 1..n : state[i] = ApplyBlock(state[i - 1], chain[i])
  BY <1>1, <1>2, ReplayUnfolds
<1>4. \A i \in 1..n : ValidBlock(state[i - 1], chain[i])
  BY <1>2 DEF StoreInv, LongestValidChain, Replays, ChainIsValid, ValidChain
<1>5. utxo_set = state[n]
  BY <1>2 DEF StoreInv, UtxoIsReplayed, UtxoOf
<1>6. Len(seqs) = n /\ \A i \in 1..n : seqs[i] = BlockOf[best_chain[i]].transactions
  <2>1. seqs = [ i \in 1..n |-> BlockOf[best_chain[i]].transactions ]
    BY <1>1
  <2>2. seqs \in Seq({ BlockOf[b].transactions : b \in Block })
    BY <1>1, <2>1
  <2> QED BY <1>1, <2>1, <2>2
<1>7. ChainTransactions = FlattenSeq(seqs)
  BY DEF ChainTransactions
<1> HIDE DEF chain, n, state, seqs
<1>8. PICK flat : /\ FlattenSeq(seqs) = flat[n] /\ flat[1] = seqs[1]
                  /\ \A i \in 2..n : flat[i] = flat[i - 1] \o seqs[i]
  <2>1. Len(seqs) = n /\ Len(seqs) \in Nat \ {0}
    BY <1>1, <1>6
  <2>2. \E g : /\ FlattenSeq(seqs) = g[Len(seqs)] /\ g[1] = seqs[1]
               /\ \A i \in 2..Len(seqs) : g[i] = g[i - 1] \o seqs[i]
    BY <2>1, FlattenUnfolds
  <2> QED BY <2>1, <2>2
<1>9. ASSUME NEW i \in 1..n, NEW txs \in Seq(Ledgered), Accounts(txs, state[i - 1])
      PROVE  seqs[i] \in Seq(Ledgered) /\ Accounts(txs \o seqs[i], state[i])
  <2>1. ValidBlock(state[i - 1], BlockOf[best_chain[i]]) /\ best_chain[i] \in Block
    BY <1>1, <1>2, <1>4
  <2> QED BY <1>2, <1>3, <1>6, <1>9, <2>1, AccountsBlock
<1> DEFINE Kept(k) == flat[k] \in Seq(Ledgered) /\ Accounts(flat[k], state[k])
           Good == { j \in Nat : j + 1 <= n => Kept(j + 1) }
<1>10. 0 \in Good
  <2>1. 1 \in 1..n /\ 1 - 1 = 0 /\ <<>> \in Seq(Ledgered)
    BY <1>1
  <2>2. Accounts(<<>>, state[0])
    <3>1. Len(<<>>) = 0 /\ DOMAIN <<>> = {} /\ 1..0 = {}
      OBVIOUS
    <3> QED BY <1>3, <3>1 DEF Accounts, Created, Spent
  <2>3. seqs[1] \in Seq(Ledgered) /\ Accounts(<<>> \o seqs[1], state[1])
    BY <1>9, <2>1, <2>2
  <2>4. <<>> \o seqs[1] = seqs[1]
    BY <2>3
  <2>5. Kept(1)
    BY <1>8, <2>3, <2>4
  <2> QED BY <2>5
<1>11. ASSUME NEW j \in Nat, j \in Good PROVE j + 1 \in Good
  <2> SUFFICES ASSUME (j + 1) + 1 <= n PROVE Kept((j + 1) + 1)
    OBVIOUS
  <2> DEFINE k == j + 1
             m == k + 1
  <2>1. Kept(k) /\ m \in 2..n /\ m \in 1..n /\ m - 1 = k
    BY <1>1, <1>11
  <2> HIDE DEF k
  <2>2. seqs[m] \in Seq(Ledgered) /\ Accounts(flat[k] \o seqs[m], state[m])
    BY <1>9, <2>1
  <2>3. flat[m] = flat[k] \o seqs[m]
    BY <1>8, <2>1
  <2>4. Kept(m)
    BY <2>1, <2>2, <2>3
  <2> QED BY <2>4 DEF k
<1>12. Kept(n)
  <2>1. n - 1 \in Nat /\ (n - 1) + 1 = n
    BY <1>1
  <2>2. n - 1 \in Good
    <3> HIDE DEF Good
    <3> QED BY <1>10, <1>11, <2>1, IntervalInduction
  <2> QED BY <1>1, <2>1, <2>2
<1> QED BY <1>5, <1>7, <1>8, <1>12

\* The unspent outputs of the best chain are the bootstrap outputs and what its
\* transactions created, without what they spent, for every chain in which no
\* transaction occurs twice, through every fork and reorganisation.
THEOREM UnspentIsUnspent == Spec => []UtxoIsUnspent
<1>1. StoreInv => UtxoIsUnspent
  BY ChainAccounts DEF Accounts, Fresh, Created, Spent, UtxoIsUnspent, NoRepeatedTransaction
<1> QED BY <1>1, StoreInvariant, PTL

-----------------------------------------------------------------------------
\* A block leaves considered outputs, finitely many, after each transaction ...
LEMMA BlockStatesHold ==
    ASSUME NEW b \in Block, NEW U, Held(U)
    PROVE  \A i \in 0..Len(BlockOf[b].transactions) :
              Held(StatesThrough(U, BlockOf[b].transactions)[i])
<1> DEFINE txs == BlockOf[b].transactions
           n == Len(txs)
           state == StatesThrough(U, txs)
           Good == { i \in Nat : i <= n => Held(state[i]) }
<1>1. n \in Nat /\ \A i \in 1..n : txs[i] \in Ledgered
  <2>1. txs \in Seq(Range(txs))
    BY BlockAssumption
  <2> QED BY <2>1, LedgeredTypes
<1>2. state[0] = U /\ \A i \in 1..n : state[i] = ApplyTransaction(state[i - 1], txs[i])
  BY <1>1, StatesUnfold
<1> HIDE DEF txs, n, state
<1>4. 0 \in Good
  BY <1>2
<1>5. ASSUME NEW i \in Nat, i \in Good PROVE i + 1 \in Good
  <2> SUFFICES ASSUME i + 1 <= n PROVE Held(state[i + 1])
    OBVIOUS
  <2>1. i + 1 \in 1..n /\ (i + 1) - 1 = i /\ Held(state[i])
    BY <1>1, <1>5
  <2>2. state[i + 1] = (state[i] \ Spends(txs[i + 1])) \cup Creates(txs[i + 1])
    BY <1>2, <2>1 DEF ApplyTransaction
  <2>3. Creates(txs[i + 1]) \subseteq Outpoints /\ IsFiniteSet(Creates(txs[i + 1]))
    BY <1>1, <2>1, CreatedWorth
  <2>4. IsFiniteSet(state[i] \ Spends(txs[i + 1]))
    BY <2>1, FS_Subset DEF Held
  <2>5. IsFiniteSet(state[i + 1])
    BY <2>2, <2>3, <2>4, FS_Union
  <2>6. state[i + 1] \subseteq Outpoints
    BY <2>1, <2>2, <2>3 DEF Held
  <2> QED BY <2>5, <2>6 DEF Held
<1>6. \A i \in Nat : i \in Good
  <2> HIDE DEF Good
  <2> QED BY <1>4, <1>5, IntervalInduction
<1>7. \A i \in 0..n : Held(state[i])
  BY <1>1, <1>6
<1> QED BY <1>7 DEF txs, n, state

\* ... and after the last.
LEMMA BlockHolds ==
    ASSUME NEW b \in Block, NEW U, Held(U)
    PROVE  Held(ApplyBlock(U, BlockOf[b]))
<1>1. BlockOf[b].transactions \in Seq(Range(BlockOf[b].transactions))
  BY BlockAssumption
<1>2. Len(BlockOf[b].transactions) \in 0..Len(BlockOf[b].transactions)
  BY <1>1
<1> QED BY <1>2, BlockStatesHold DEF ApplyBlock

\* An output that no transaction of a block spends outlives it.
LEMMA BlockLeaves ==
    ASSUME NEW b \in Block, NEW U, NEW o \in U,
           \A i \in DOMAIN BlockOf[b].transactions : o \notin Spends(BlockOf[b].transactions[i])
    PROVE  o \in ApplyBlock(U, BlockOf[b])
<1> DEFINE txs == BlockOf[b].transactions
           n == Len(txs)
           state == StatesThrough(U, txs)
           Good == { i \in Nat : i <= n => o \in state[i] }
<1>1. n \in Nat /\ \A i \in 1..n : o \notin Spends(txs[i])
  <2>1. txs \in Seq(Range(txs))
    BY BlockAssumption
  <2> QED BY <2>1
<1>2. state[0] = U /\ \A i \in 1..n : state[i] = ApplyTransaction(state[i - 1], txs[i])
  BY <1>1, StatesUnfold
<1>3. ApplyBlock(U, BlockOf[b]) = state[n]
  BY DEF ApplyBlock
<1> HIDE DEF txs, n, state
<1>4. 0 \in Good
  BY <1>2
<1>5. ASSUME NEW i \in Nat, i \in Good PROVE i + 1 \in Good
  <2> SUFFICES ASSUME i + 1 <= n PROVE o \in state[i + 1]
    OBVIOUS
  <2>1. i + 1 \in 1..n /\ (i + 1) - 1 = i /\ o \in state[i]
    BY <1>1, <1>5
  <2> QED BY <1>1, <1>2, <2>1 DEF ApplyTransaction
<1>6. n \in Good
  <2> HIDE DEF Good
  <2> QED BY <1>1, <1>4, <1>5, IntervalInduction
<1> QED BY <1>1, <1>3, <1>6

\* A chain and a longer one that begins with it are replayed alike.
LEMMA ReplayOfPrefix ==
    ASSUME NEW short, NEW long, Len(short) \in Nat, Len(long) \in Nat, Len(short) <= Len(long),
           \A i \in 1..Len(short) : short[i] = long[i]
    PROVE  UtxoThrough(long)[Len(short)] = UtxoThrough(short)[Len(short)]
<1> DEFINE n == Len(short)
           s == UtxoThrough(short)
           l == UtxoThrough(long)
           Good == { i \in Nat : i <= n => l[i] = s[i] }
<1>1. s[0] = Bootstrap /\ \A i \in 1..n : s[i] = ApplyBlock(s[i - 1], short[i])
  BY ReplayUnfolds
<1>2. l[0] = Bootstrap /\ \A i \in 1..n : l[i] = ApplyBlock(l[i - 1], long[i])
  <2>1. \A i \in 1..n : i \in 1..Len(long)
    OBVIOUS
  <2> QED BY <2>1, ReplayUnfolds
<1>3. n \in Nat /\ \A i \in 1..n : short[i] = long[i]
  OBVIOUS
<1> HIDE DEF n, s, l
<1>4. 0 \in Good
  BY <1>1, <1>2
<1>5. ASSUME NEW i \in Nat, i \in Good PROVE i + 1 \in Good
  <2> SUFFICES ASSUME i + 1 <= n PROVE l[i + 1] = s[i + 1]
    OBVIOUS
  <2>1. i + 1 \in 1..n /\ (i + 1) - 1 = i /\ l[i] = s[i]
    BY <1>3, <1>5
  <2> QED BY <1>1, <1>2, <1>3, <2>1
<1>6. n \in Good
  <2> HIDE DEF Good
  <2> QED BY <1>3, <1>4, <1>5, IntervalInduction
<1> QED BY <1>3, <1>6 DEF n, s, l

\* The blocks of a chain of hashes.
LEMMA BlocksOfChain ==
    ASSUME NEW path \in Seq(Block)
    PROVE  /\ Len(BlocksOf(path)) = Len(path) /\ DOMAIN BlocksOf(path) = 1..Len(path)
           /\ Len(path) \in Nat
           /\ \A i \in 1..Len(path) : BlocksOf(path)[i] = BlockOf[path[i]] /\ path[i] \in Block
<1>1. BlocksOf(path) = [ i \in 1..Len(path) |-> BlockOf[path[i]] ]
  BY DEF BlocksOf
<1>2. \A i \in 1..Len(path) : path[i] \in Block
  OBVIOUS
<1>3. BlocksOf(path) \in Seq({ BlockOf[b] : b \in Block })
  BY <1>1, <1>2
<1> QED BY <1>1, <1>2, <1>3

\* So are the outputs after each block of the best chain, ...
LEMMA ChainStatesHold ==
    ASSUME StoreInv
    PROVE  \A i \in 0..Len(best_chain) : Held(UtxoThrough(BlocksOf(best_chain))[i])
<1> DEFINE chain == BlocksOf(best_chain)
           n == Len(best_chain)
           state == UtxoThrough(chain)
           Good == { i \in Nat : i <= n => Held(state[i]) }
<1>1. /\ n \in Nat /\ Len(chain) = n
      /\ \A i \in 1..n : chain[i] = BlockOf[best_chain[i]] /\ best_chain[i] \in Block
  BY BlocksOfChain DEF StoreInv, TypeOK
<1>2. state[0] = Bootstrap /\ \A i \in 1..n : state[i] = ApplyBlock(state[i - 1], chain[i])
  BY <1>1, ReplayUnfolds
<1> HIDE DEF chain, n, state
<1>4. 0 \in Good
  BY <1>2, LedgeredTypes, LedgerAssumption DEF Held
<1>5. ASSUME NEW i \in Nat, i \in Good PROVE i + 1 \in Good
  <2> SUFFICES ASSUME i + 1 <= n PROVE Held(state[i + 1])
    OBVIOUS
  <2>1. i + 1 \in 1..n /\ (i + 1) - 1 = i /\ Held(state[i])
    BY <1>1, <1>5
  <2>2. state[i + 1] = ApplyBlock(state[i], BlockOf[best_chain[i + 1]])
    BY <1>1, <1>2, <2>1
  <2> QED BY <1>1, <2>1, <2>2, BlockHolds
<1>6. \A i \in Nat : i \in Good
  <2> HIDE DEF Good
  <2> QED BY <1>4, <1>5, IntervalInduction
<1>7. \A i \in 0..n : Held(state[i])
  BY <1>1, <1>6
<1> QED BY <1>7 DEF n, state, chain

\* ... and those that are unspent at its tip.
LEMMA UnspentAreHeld == ASSUME StoreInv PROVE Held(utxo_set)
<1>1. Len(BlocksOf(best_chain)) = Len(best_chain) /\ Len(best_chain) \in Nat
  BY BlocksOfChain DEF StoreInv, TypeOK
<1>2. utxo_set = UtxoThrough(BlocksOf(best_chain))[Len(best_chain)]
  BY <1>1 DEF StoreInv, UtxoIsReplayed, UtxoOf
<1> QED BY <1>1, <1>2, ChainStatesHold

\* A block on top of the tip that is adopted is applied to the unspent outputs.
LEMMA ExtensionApplies ==
    ASSUME StoreInv, NEW b \in Block, AdoptBlock(b), Front(best_chain') = best_chain
    PROVE  utxo_set' = ApplyBlock(utxo_set, BlockOf[b])
<1> DEFINE path == ancestry[b]
           m == Len(path)
           n == Len(best_chain)
<1>1. /\ best_chain' = path /\ utxo_set' = UtxoOf(BlocksOf(path)) /\ m > n /\ CanStore(b)
      /\ PathKnown(b) /\ blocks' = blocks \cup {b}
  BY DEF AdoptBlock, Adopts
<1>2. path \in Seq(Block) /\ best_chain \in Seq(Block) /\ m \in Nat /\ n \in Nat
  <2>1. path \in Seq(Block)
    BY BlockAssumption
  <2>2. best_chain \in Seq(Block)
    BY DEF StoreInv, TypeOK
  <2> HIDE DEF path
  <2> QED BY <2>1, <2>2
<1>3. path[m] = b
  BY PathEnds
<1>4. n = m - 1 /\ \A i \in 1..n : best_chain[i] = path[i]
  <2>1. best_chain = SubSeq(path, 1, m - 1)
    BY <1>1 DEF Front
  <2>2. m - 1 \in 0..m
    BY <1>1, <1>2
  <2> QED BY <1>2, <2>1, <2>2
<1> HIDE DEF path, m, n
<1>5. /\ Len(BlocksOf(path)) = m /\ Len(BlocksOf(best_chain)) = n
      /\ \A i \in 1..m : BlocksOf(path)[i] = BlockOf[path[i]]
      /\ \A i \in 1..n : BlocksOf(best_chain)[i] = BlockOf[best_chain[i]]
  BY <1>2, BlocksOfChain DEF m, n
<1>6. UtxoThrough(BlocksOf(path))[n] = UtxoThrough(BlocksOf(best_chain))[n]
  <2>1. \A i \in 1..n : BlocksOf(best_chain)[i] = BlocksOf(path)[i]
    BY <1>2, <1>4, <1>5
  <2>2. n <= m
    BY <1>2, <1>4
  <2> QED BY <1>2, <1>5, <2>1, <2>2, ReplayOfPrefix
<1>7. m \in 1..m /\ m - 1 = n
  BY <1>2, <1>4
<1>8. UtxoThrough(BlocksOf(path))[m] = ApplyBlock(UtxoThrough(BlocksOf(path))[n], BlockOf[b])
  <2>1. UtxoThrough(BlocksOf(path))[m]
           = ApplyBlock(UtxoThrough(BlocksOf(path))[m - 1], BlocksOf(path)[m])
    BY <1>2, <1>5, <1>7, ReplayUnfolds
  <2> QED BY <1>3, <1>5, <1>7, <2>1
<1>9. utxo_set = UtxoThrough(BlocksOf(best_chain))[n]
  BY <1>5 DEF StoreInv, UtxoIsReplayed, UtxoOf
<1> QED BY <1>1, <1>5, <1>6, <1>8, <1>9 DEF UtxoOf

-----------------------------------------------------------------------------
\* What the check against the chain establishes that stays true of a
\* transaction whatever becomes of the chain.
Checked(tx) ==
    /\ WellFormed(tx)
    /\ \A i \in DOMAIN tx.inputs :
          tx.inputs[i].signer = OutputAt(tx.inputs[i].previous_output).script_pubkey
    /\ TotalInputValue(tx) < U64 /\ TotalOutputValue(tx) <= TotalInputValue(tx)
    /\ TotalOutputValue(tx) \in Nat /\ Fee(tx) \in Nat

\* A transaction that may spend from considered outputs has a fee.
LEMMA CheckEstablishes ==
    ASSUME NEW U, Held(U), NEW tx, IsTransaction(tx), ValidSpend(U, tx)
    PROVE  Checked(tx)
<1>1. Spends(tx) \subseteq U
  BY DEF ValidSpend, Spends
<1>2. TotalInputValue(tx) \in Nat
  <2>1. /\ Spends(tx) \subseteq Outpoints /\ IsFiniteSet(Spends(tx))
        /\ TotalInputValue(tx) = Worth(Spends(tx))
    BY <1>1, SpentWorth DEF Held
  <2> QED BY <2>1, WorthOfSet
<1>3. TotalOutputValue(tx) \in Nat
  <2> DEFINE outputs == tx.outputs
             S == 1..Len(outputs)
             f == [ i \in DOMAIN outputs |-> outputs[i].value ]
  <2>1. outputs \in Seq(Range(outputs)) /\ outputs # <<>>
    BY DEF IsTransaction, ValidSpend, WellFormed
  <2>2. \A i \in DOMAIN outputs : outputs[i].value \in 0..(U64 - 1)
    BY DEF IsTransaction
  <2>3. TotalOutputValue(tx) = SumFunction(f) % U64
    BY DEF TotalOutputValue
  <2> HIDE DEF outputs
  <2>4. DOMAIN outputs = S /\ Len(outputs) \in Nat /\ 1 \in S
    <3> DEFINE R == Range(outputs)
    <3>1. outputs \in Seq(R)
      BY <2>1
    <3> HIDE DEF R
    <3> QED BY <2>1, <3>1
  <2>5. U64 \in Nat \ {0}
    BY <2>2, <2>4, LedgerAssumption
  <2>6. DOMAIN f = S /\ \A i \in S : f[i] \in Nat
    BY <2>2, <2>4, <2>5
  <2>7. IsFiniteSet(S)
    BY <2>4, FS_Interval
  <2> HIDE DEF f, S
  <2>8. SumFunction(f) \in Nat
    BY <2>6, <2>7, SumIsNat DEF SumFunction
  <2>9. \A a \in Nat : a % U64 \in Nat
    BY <2>5
  <2> QED BY <2>3, <2>8, <2>9
<1> QED BY <1>2, <1>3 DEF ValidSpend, Checked, Fee

-----------------------------------------------------------------------------
\* The transactions of the best chain, as the proofs need them.
Proper == { tx \in Ledgered : Unwrapped(tx) /\ (IsCoinbase(tx) \/ Checked(tx)) }

\* The transactions of the blocks of the best chain are such.
LEMMA ChainIsProper ==
    ASSUME StoreInv, NoSumWraps
    PROVE  \A i \in DOMAIN best_chain : \A j \in DOMAIN BlockOf[best_chain[i]].transactions :
              BlockOf[best_chain[i]].transactions[j] \in Proper
<1> DEFINE chain == BlocksOf(best_chain)
           n == Len(best_chain)
           state == UtxoThrough(chain)
<1>1. /\ n \in Nat /\ DOMAIN chain = 1..n /\ DOMAIN best_chain = 1..n
      /\ \A i \in 1..n : chain[i] = BlockOf[best_chain[i]] /\ best_chain[i] \in Block
  BY BlocksOfChain DEF StoreInv, TypeOK
<1>2. \A i \in 1..n : ValidBlock(state[i - 1], chain[i])
  BY <1>1 DEF StoreInv, LongestValidChain, Replays, ChainIsValid, ValidChain
<1>3. \A i \in 0..n : Held(state[i])
  BY ChainStatesHold
<1> HIDE DEF chain, n, state
<1>4. ASSUME NEW i \in 1..n PROVE
        \A j \in DOMAIN BlockOf[best_chain[i]].transactions :
            BlockOf[best_chain[i]].transactions[j] \in Proper
  <2> DEFINE b == best_chain[i]
             txs == BlockOf[b].transactions
             U == state[i - 1]
             inner == StatesThrough(U, txs)
  <2>1. b \in Block /\ ValidBlock(U, BlockOf[b]) /\ Held(U)
    <3>1. i - 1 \in 0..n
      BY <1>1
    <3> QED BY <1>1, <1>2, <1>3, <3>1
  <2>2. DOMAIN txs = 1..Len(txs) /\ Len(txs) \in Nat
    <3>1. txs \in Seq(Range(txs))
      BY <2>1, BlockAssumption
    <3> QED BY <3>1
  <2>3. \A j \in 1..Len(txs) : txs[j] \in Ledgered /\ IsTransaction(txs[j]) /\ Unwrapped(txs[j])
    BY <1>1, <2>1, <2>2, LedgeredTypes DEF NoSumWraps
  <2>4. IsCoinbase(txs[1]) /\ \A j \in 2..Len(txs) : ValidSpend(inner[j - 1], txs[j])
    BY <2>1 DEF ValidBlock
  <2>5. \A j \in 0..Len(txs) : Held(inner[j])
    BY <2>1, BlockStatesHold
  <2> HIDE DEF txs, inner, U, b
  <2>6. ASSUME NEW j \in 1..Len(txs) PROVE txs[j] \in Proper
    <3>1. CASE j = 1
      BY <2>3, <2>4, <3>1 DEF Proper
    <3>2. CASE j # 1
      <4>1. j \in 2..Len(txs) /\ j - 1 \in 0..Len(txs)
        BY <2>2, <3>2
      <4>2. Checked(txs[j])
        BY <2>3, <2>4, <2>5, <4>1, CheckEstablishes
      <4> QED BY <2>3, <4>2 DEF Proper
    <3> QED BY <3>1, <3>2
  <2> QED BY <2>2, <2>6 DEF txs, b
<1> QED BY <1>1, <1>4

\* What holds of the transactions of its blocks holds of the chain's.
LEMMA ChainOf ==
    ASSUME StoreInv, NEW T,
           \A i \in DOMAIN best_chain : \A j \in DOMAIN BlockOf[best_chain[i]].transactions :
              BlockOf[best_chain[i]].transactions[j] \in T
    PROVE  ChainTransactions \in Seq(T)
<1> DEFINE n == Len(best_chain)
           seqs == [ i \in DOMAIN best_chain |-> BlockOf[best_chain[i]].transactions ]
<1>1. /\ n \in Nat \ {0} /\ DOMAIN best_chain = 1..n
      /\ \A i \in 1..n : best_chain[i] \in Block
  <2>1. best_chain \in Seq(Block) /\ BestChainLinked
    BY StoreInvLinks DEF StoreInv, TypeOK
  <2> QED BY <2>1 DEF BestChainLinked
<1>2. \A i \in 1..n : BlockOf[best_chain[i]].transactions \in Seq(T)
  <2> SUFFICES ASSUME NEW i \in 1..n PROVE BlockOf[best_chain[i]].transactions \in Seq(T)
    OBVIOUS
  <2> DEFINE txs == BlockOf[best_chain[i]].transactions
  <2>1. txs \in Seq(Range(txs))
    BY <1>1, BlockAssumption
  <2>2. \A j \in DOMAIN txs : txs[j] \in T
    BY <1>1
  <2> HIDE DEF txs
  <2>3. txs \in Seq(T)
    BY <2>1, <2>2
  <2> QED BY <2>3 DEF txs
<1>3. Len(seqs) = n /\ \A i \in 1..n : seqs[i] \in Seq(T)
  <2>1. seqs = [ i \in 1..n |-> BlockOf[best_chain[i]].transactions ]
    BY <1>1
  <2>2. seqs \in Seq(Seq(T))
    BY <1>1, <1>2, <2>1
  <2> QED BY <1>1, <2>1, <2>2
<1>4. ChainTransactions = FlattenSeq(seqs)
  BY DEF ChainTransactions
<1> HIDE DEF n, seqs
<1>5. PICK flat : /\ FlattenSeq(seqs) = flat[n] /\ flat[1] = seqs[1]
                  /\ \A i \in 2..n : flat[i] = flat[i - 1] \o seqs[i]
  <2>1. Len(seqs) = n /\ Len(seqs) \in Nat \ {0}
    BY <1>1, <1>3
  <2>2. \E g : /\ FlattenSeq(seqs) = g[Len(seqs)] /\ g[1] = seqs[1]
               /\ \A i \in 2..Len(seqs) : g[i] = g[i - 1] \o seqs[i]
    BY <2>1, FlattenUnfolds
  <2> QED BY <2>1, <2>2
<1> DEFINE Good == { j \in Nat : j + 1 <= n => flat[j + 1] \in Seq(T) }
<1>6. 0 \in Good
  <2>1. 0 + 1 = 1 /\ 1 \in 1..n
    BY <1>1
  <2> QED BY <1>3, <1>5, <2>1
<1>7. ASSUME NEW j \in Nat, j \in Good PROVE j + 1 \in Good
  <2> SUFFICES ASSUME (j + 1) + 1 <= n PROVE flat[(j + 1) + 1] \in Seq(T)
    OBVIOUS
  <2> DEFINE m == (j + 1) + 1
  <2>1. m \in 2..n /\ m \in 1..n /\ m - 1 = j + 1 /\ flat[j + 1] \in Seq(T)
    BY <1>1, <1>7
  <2> HIDE DEF m
  <2>2. flat[m] = flat[j + 1] \o seqs[m] /\ seqs[m] \in Seq(T)
    BY <1>3, <1>5, <2>1
  <2>3. flat[m] \in Seq(T)
    BY <2>1, <2>2
  <2> QED BY <2>3 DEF m
<1>8. n - 1 \in Good /\ (n - 1) + 1 = n
  <2> HIDE DEF Good
  <2>1. n - 1 \in Nat /\ (n - 1) + 1 = n
    BY <1>1
  <2> QED BY <1>6, <1>7, <2>1, IntervalInduction
<1>9. flat[n] \in Seq(T)
  BY <1>1, <1>8
<1> QED BY <1>4, <1>5, <1>9

-----------------------------------------------------------------------------
\* The outputs of an address, without the bootstrap outputs.
Owned(S, address) == { o \in S \ Bootstrap : OutputAt(o).script_pubkey = address }

\* What a line of the history does to the balance.
Change(line) ==
    CASE line.direction \in {"MiningReward", "Incoming"} -> line.amount
      [] line.direction = "SelfTransfer" -> 0 - line.fee
      [] line.direction = "Outgoing" -> 0 - line.amount - line.fee

\* A transaction that has not occurred creates new outputs, and spends what is
\* there: earlier outputs of the chain, or bootstrap outputs.
LEMMA ChainStep ==
    ASSUME NEW txs \in Seq(Ledgered), Fresh(txs), NEW V, Accounts(txs, V), NEW k \in 1..Len(txs)
    PROVE  LET tx == txs[k]
               before == Created(txs, k - 1) \ Spent(txs, k - 1)
               after == Created(txs, k) \ Spent(txs, k)
           IN  /\ Spends(tx) \subseteq before
               /\ Creates(tx) \cap before = {} /\ Creates(tx) \cap Bootstrap = {}
               /\ after = (before \ Spends(tx)) \cup Creates(tx)
               /\ \A o \in Spends(tx) : o \in Bootstrap <=> o[1] \notin { txs[j] : j \in 1..(k - 1) }
<1> DEFINE tx == txs[k]
<1>1. /\ DOMAIN txs = 1..Len(txs) /\ Len(txs) \in Nat
      /\ \A i, j \in 1..Len(txs) : txs[i] = txs[j] => i = j
      /\ \A o \in Bootstrap : \A i \in 1..Len(txs) : o[1] # txs[i]
  BY DEF Fresh, IsInjective, ToSet
<1>2. \A i \in 1..Len(txs) : Spends(txs[i]) \subseteq Created(txs, i - 1) \ Spent(txs, i - 1)
  BY <1>1 DEF Accounts
<1>3. 1..k = (1..(k - 1)) \cup {k} /\ \A j \in 1..(k - 1) : j \in 1..Len(txs) /\ j # k
  BY <1>1
<1>4. /\ Created(txs, k) = Created(txs, k - 1) \cup Creates(tx)
      /\ Spent(txs, k) = Spent(txs, k - 1) \cup Spends(tx)
  BY <1>3 DEF Created, Spent
<1>5. Spent(txs, k - 1) \subseteq Created(txs, k - 1)
  <2> SUFFICES ASSUME NEW i \in 1..(k - 1) PROVE Spends(txs[i]) \subseteq Created(txs, k - 1)
    BY DEF Spent
  <2>1. Spends(txs[i]) \subseteq Created(txs, i - 1)
    BY <1>2, <1>3
  <2>2. \A j \in 1..(i - 1) : j \in 1..(k - 1)
    BY <1>1
  <2>3. Created(txs, i - 1) \subseteq Created(txs, k - 1)
    BY <2>2 DEF Created
  <2> QED BY <2>1, <2>3
<1>6. Creates(tx) \cap Created(txs, k - 1) = {} /\ Creates(tx) \cap Bootstrap = {}
  <2>1. \A o \in Creates(tx) : o[1] = tx
    BY DEF Creates
  <2>2. \A j \in 1..(k - 1) : \A o \in Creates(txs[j]) : o[1] # tx
    BY <1>1, <1>3 DEF Creates
  <2>3. \A o \in Bootstrap : o[1] # tx
    BY <1>1
  <2> QED BY <2>1, <2>2, <2>3 DEF Created
<1>7. ASSUME NEW o \in Spends(tx)
      PROVE  o \in Bootstrap <=> o[1] \notin { txs[j] : j \in 1..(k - 1) }
  <2>1. o \in Bootstrap => o[1] \notin { txs[j] : j \in 1..(k - 1) }
    BY <1>1, <1>3
  <2>2. o \in Created(txs, k - 1)
    BY <1>2
  <2>3. o \notin Bootstrap => \E j \in 1..(k - 1) : o[1] = txs[j]
    BY <2>2 DEF Created, Creates
  <2> QED BY <2>1, <2>3
<1>8. Spends(tx) \subseteq Created(txs, k - 1) \ Spent(txs, k - 1)
  BY <1>2
<1> HIDE DEF tx
<1>9. Created(txs, k) \ Spent(txs, k)
        = ((Created(txs, k - 1) \ Spent(txs, k - 1)) \ Spends(tx)) \cup Creates(tx)
  BY <1>4, <1>5, <1>6, <1>8
<1> QED BY <1>6, <1>7, <1>8, <1>9 DEF tx

\* What a line shows is what its transaction did to the outputs of the address.
LEMMA LineIsChange ==
    ASSUME NEW txs \in Seq(Proper), NEW k \in 1..Len(txs), NEW address, OneSource(txs[k]),
           Spends(txs[k]) \subseteq Outpoints,
           \A o \in Spends(txs[k]) : o \in Bootstrap <=> o[1] \notin { txs[j] : j \in 1..(k - 1) },
           Creates(txs[k]) \cap Bootstrap = {}
    PROVE  Change(HistoryLine(txs, k, address))
              = Worth(Owned(Creates(txs[k]), address)) - Worth(Owned(Spends(txs[k]), address))
<1> DEFINE tx == txs[k]
           P == Owned(Creates(tx), address)
           E == { o \in Creates(tx) : OutputAt(o).script_pubkey # address }
           Q == Owned(Spends(tx), address)
           incoming == PaidTo(tx, address)
           owned == OwnedInputAmount(txs, k, address)
           external == ValueOf(E)
           paid == TotalOutputValue(tx)
           fee == IF owned > paid THEN owned - paid ELSE 0
           line == HistoryLine(txs, k, address)
<1>1. tx \in Ledgered /\ Unwrapped(tx) /\ (IsCoinbase(tx) \/ Checked(tx)) /\ IsTransaction(tx)
  BY LedgeredTypes DEF Proper
<1>2. Creates(tx) \subseteq Outpoints /\ IsFiniteSet(Creates(tx)) /\ paid = Worth(Creates(tx))
  BY <1>1, CreatedWorth
<1>3. IsFiniteSet(Spends(tx)) /\ TotalInputValue(tx) = Worth(Spends(tx))
  BY <1>1, SpentWorth
<1>4. P = { o \in Creates(tx) : OutputAt(o).script_pubkey = address }
  BY DEF Owned
<1>5. Q = { o \in Spends(tx) : /\ o[1] \in { txs[j] : j \in 1..(k - 1) }
                              /\ OutputAt(o).script_pubkey = address }
  BY DEF Owned
<1>6. /\ P \in SUBSET Outpoints /\ IsFiniteSet(P)
      /\ E \in SUBSET Outpoints /\ IsFiniteSet(E)
      /\ Q \in SUBSET Outpoints /\ IsFiniteSet(Q)
  <2>1. P \in SUBSET Creates(tx) /\ E \in SUBSET Creates(tx) /\ Q \in SUBSET Spends(tx)
    BY <1>4, <1>5
  <2> HIDE DEF P, E, Q, tx
  <2> QED BY <1>2, <1>3, <2>1, FS_Subset DEF tx
<1>7. incoming = ValueOf(P) /\ owned = ValueOf(Q)
  BY <1>4, <1>5 DEF PaidTo, OwnedInputAmount
<1>8. E = Creates(tx) \ P
  BY <1>4
<1>9. line =
        CASE tx.inputs = <<>> -> [ direction |-> "MiningReward", amount |-> incoming, fee |-> fee ]
          [] tx.inputs # <<>> /\ owned > 0 /\ external = 0 ->
                [ direction |-> "SelfTransfer", amount |-> incoming, fee |-> fee ]
          [] tx.inputs # <<>> /\ owned > 0 /\ external > 0 ->
                [ direction |-> "Outgoing", amount |-> external, fee |-> fee ]
          [] tx.inputs # <<>> /\ owned = 0 ->
                [ direction |-> "Incoming", amount |-> incoming, fee |-> fee ]
  BY DEF HistoryLine
<1>10. Q # {} => Q = Spends(tx) /\ Checked(tx)
  <2> SUFFICES ASSUME Q # {} PROVE Q = Spends(tx) /\ Checked(tx)
    OBVIOUS
  <2>1. PICK o \in Spends(tx) : o \notin Bootstrap /\ OutputAt(o).script_pubkey = address
    BY DEF Owned
  <2>2. PICK i \in DOMAIN tx.inputs : tx.inputs[i].previous_output = o
    BY <2>1 DEF Spends
  <2>3. Checked(tx)
    BY <1>1, <2>2 DEF IsCoinbase
  <2>4. Spends(tx) \cap Bootstrap = {}
    BY <2>1 DEF OneSource
  <2>5. \A j \in DOMAIN tx.inputs : OutputAt(tx.inputs[j].previous_output).script_pubkey = address
    <3>1. /\ \A j \in DOMAIN tx.inputs : tx.inputs[j].signer
                = OutputAt(tx.inputs[j].previous_output).script_pubkey
          /\ \A j \in DOMAIN tx.inputs : tx.inputs[j].signer = tx.inputs[i].signer
      BY <2>2, <2>3 DEF Checked, OneSource
    <3> QED BY <2>1, <2>2, <3>1
  <2>6. \A q \in Spends(tx) : q \notin Bootstrap /\ OutputAt(q).script_pubkey = address
    BY <2>4, <2>5 DEF Spends
  <2> QED BY <2>3, <2>6 DEF Owned
<1>11. IsCoinbase(tx) => Q = {}
  BY DEF IsCoinbase, Spends, Owned
<1>12. IsCoinbase(tx) <=> tx.inputs = <<>>
  BY DEF IsCoinbase
<1>13. Checked(tx) => paid <= TotalInputValue(tx)
  BY DEF Checked
<1> HIDE DEF tx, P, E, Q, incoming, owned, external, paid, line
<1>14. /\ incoming = Worth(P) /\ owned = Worth(Q) /\ external = Worth(E)
       /\ incoming \in Nat /\ owned \in Nat /\ external \in Nat
  BY <1>6, <1>7, WorthOfSet DEF external
<1>15. paid = incoming + external
  <2>1. \A o \in Creates(tx) : Value[o] \in Int
    BY <1>2, OutpointValue
  <2>2. P \in SUBSET Creates(tx)
    BY <1>4
  <2>3. Worth(Creates(tx) \ P) = Worth(Creates(tx)) - Worth(P)
    BY <1>2, <2>1, <2>2, SumOfPart DEF Worth
  <2>4. Worth(Creates(tx)) \in Nat
    BY <1>2, WorthOfSet
  <2> QED BY <1>2, <1>8, <1>14, <2>3, <2>4
<1>16. Q = {} => owned = 0
  BY <1>14, SumOfNone DEF Worth
<1>17. owned > 0 => owned = TotalInputValue(tx) /\ paid <= owned
  BY <1>3, <1>10, <1>13, <1>14, <1>16
<1>18. owned > 0 => fee = owned - paid
  BY <1>14, <1>15, <1>17
<1> HIDE DEF fee
<1>19. Change(line) = incoming - owned
  <2>1. CASE tx.inputs = <<>>
    <3>1. line.direction = "MiningReward" /\ line.amount = incoming
      BY <1>9, <2>1
    <3>2. Change(line) = incoming
      BY <3>1 DEF Change
    <3> QED BY <1>11, <1>12, <1>14, <1>16, <2>1, <3>2
  <2>2. CASE tx.inputs # <<>> /\ owned = 0
    <3>1. line.direction = "Incoming" /\ line.amount = incoming
      BY <1>9, <2>2
    <3>2. Change(line) = incoming
      BY <3>1 DEF Change
    <3> QED BY <1>14, <2>2, <3>2
  <2>3. CASE tx.inputs # <<>> /\ owned > 0 /\ external = 0
    <3>1. line.direction = "SelfTransfer" /\ line.fee = fee
      BY <1>9, <2>3
    <3>2. Change(line) = 0 - fee
      BY <3>1 DEF Change
    <3> QED BY <1>14, <1>15, <1>18, <2>3, <3>2
  <2>4. CASE tx.inputs # <<>> /\ owned > 0 /\ external > 0
    <3>1. line.direction = "Outgoing" /\ line.fee = fee /\ line.amount = external
      BY <1>9, <2>4
    <3>2. Change(line) = 0 - external - fee
      BY <3>1 DEF Change
    <3> QED BY <1>14, <1>15, <1>18, <2>4, <3>2
  <2> QED BY <1>14, <2>1, <2>2, <2>3, <2>4
<1> QED BY <1>14, <1>19 DEF tx, P, Q, line

\* The history of a chain sums what it did to the outputs of the address.
LEMMA LinesAddUp ==
    ASSUME NEW txs \in Seq(Proper), Fresh(txs), NEW V, Accounts(txs, V), NEW address,
           \A k \in 1..Len(txs) : OneSource(txs[k])
    PROVE  /\ SumFunctionOnSet([ k \in 1..Len(txs) |-> Change(HistoryLine(txs, k, address)) ],
                               1..Len(txs)) = Worth(Owned(V, address))
           /\ Held(V)
<1> DEFINE n == Len(txs)
           f == [ k \in 1..n |-> Change(HistoryLine(txs, k, address)) ]
           left(k) == Created(txs, k) \ Spent(txs, k)
           Good == { k \in Nat : k <= n => /\ Held(left(k))
                                           /\ SumFunctionOnSet(f, 1..k) = Worth(Owned(left(k), address))
                                           /\ \A i \in 1..k : f[i] \in Int }
<1>1. n \in Nat /\ DOMAIN txs = 1..n /\ txs \in Seq(Ledgered) /\ V = left(n)
      /\ \A k \in 1..n : txs[k] \in Ledgered
  <2>1. txs \in Seq(Ledgered)
    BY DEF Proper
  <2> QED BY <2>1 DEF Accounts
<1>2. 0 \in Good
  <2>1. left(0) = Bootstrap /\ 1..0 = {}
    BY DEF Created, Spent
  <2>2. Held(Bootstrap) /\ Owned(Bootstrap, address) = {}
    BY LedgeredTypes, LedgerAssumption DEF Held, Owned
  <2> HIDE DEF f, left
  <2>3. SumFunctionOnSet(f, 1..0) = Worth({})
    BY <2>1, SumOfNone DEF Worth
  <2> QED BY <2>1, <2>2, <2>3
<1>3. ASSUME NEW i \in Nat, i \in Good PROVE i + 1 \in Good
  <2> SUFFICES ASSUME i + 1 <= n
               PROVE  /\ Held(left(i + 1))
                      /\ SumFunctionOnSet(f, 1..(i + 1)) = Worth(Owned(left(i + 1), address))
                      /\ \A j \in 1..(i + 1) : f[j] \in Int
    OBVIOUS
  <2> DEFINE k == i + 1
             tx == txs[k]
             S == left(i)
             P == Owned(Creates(tx), address)
             Q == Owned(Spends(tx), address)
             O == Owned(S, address)
  <2>1. k \in 1..n /\ k - 1 = i /\ Held(S) /\ SumFunctionOnSet(f, 1..i) = Worth(O)
        /\ \A j \in 1..i : f[j] \in Int
    BY <1>1, <1>3
  <2>2. /\ Spends(tx) \subseteq S
        /\ Creates(tx) \cap S = {} /\ Creates(tx) \cap Bootstrap = {}
        /\ left(k) = (S \ Spends(tx)) \cup Creates(tx)
        /\ \A o \in Spends(tx) : o \in Bootstrap <=> o[1] \notin { txs[j] : j \in 1..(k - 1) }
    <3>1. LET t == txs[k]
              before == Created(txs, k - 1) \ Spent(txs, k - 1)
              after == Created(txs, k) \ Spent(txs, k)
          IN  /\ Spends(t) \subseteq before
              /\ Creates(t) \cap before = {} /\ Creates(t) \cap Bootstrap = {}
              /\ after = (before \ Spends(t)) \cup Creates(t)
              /\ \A o \in Spends(t) : o \in Bootstrap <=> o[1] \notin { txs[j] : j \in 1..(k - 1) }
      <4> HIDE DEF k, n
      <4> QED BY <1>1, <2>1, ChainStep DEF n
    <3> QED BY <2>1, <3>1
  <2>3. Creates(tx) \subseteq Outpoints /\ IsFiniteSet(Creates(tx))
    BY <1>1, <2>1, CreatedWorth
  <2>4. Spends(tx) \subseteq Outpoints /\ OneSource(tx)
    BY <1>1, <2>1, <2>2 DEF Held
  <2>5. f[k] = Worth(P) - Worth(Q)
    <3>1. f[k] = Change(HistoryLine(txs, k, address))
      BY <2>1
    <3>2. Change(HistoryLine(txs, k, address))
            = Worth(Owned(Creates(txs[k]), address)) - Worth(Owned(Spends(txs[k]), address))
      <4> HIDE DEF k, f, left
      <4> QED BY <1>1, <2>1, <2>2, <2>4, LineIsChange
    <3> QED BY <3>1, <3>2
  <2> HIDE DEF k, f, left, S, tx
  <2>6. Held(left(k))
    <3>1. IsFiniteSet(S \ Spends(tx))
      BY <2>1, FS_Subset DEF Held
    <3>2. IsFiniteSet((S \ Spends(tx)) \cup Creates(tx))
      BY <2>3, <3>1, FS_Union
    <3> QED BY <2>1, <2>2, <2>3, <3>2 DEF Held
  <2>7. /\ Owned(left(k), address) = (O \ Q) \cup P
        /\ Q \in SUBSET O /\ P \cap O = {}
    BY <2>2 DEF Owned
  <2>8. /\ O \in SUBSET S /\ P \in SUBSET Creates(tx)
    BY DEF Owned
  <2> HIDE DEF O, P, Q
  <2>9. /\ O \in SUBSET Outpoints /\ IsFiniteSet(O)
        /\ P \in SUBSET Outpoints /\ IsFiniteSet(P)
        /\ Q \in SUBSET Outpoints /\ IsFiniteSet(Q) /\ IsFiniteSet(O \ Q)
    <3>1. IsFiniteSet(O) /\ IsFiniteSet(P)
      BY <2>1, <2>3, <2>8, FS_Subset DEF Held
    <3>2. IsFiniteSet(Q) /\ IsFiniteSet(O \ Q)
      BY <2>7, <3>1, FS_Subset
    <3> QED BY <2>1, <2>3, <2>7, <2>8, <3>1, <3>2 DEF Held
  <2>10. Worth(O) \in Nat /\ Worth(P) \in Nat /\ Worth(Q) \in Nat
    BY <2>9, WorthOfSet
  <2>11. Worth((O \ Q) \cup P) = Worth(O) - Worth(Q) + Worth(P)
    <3>1. \A o \in O \cup P : Value[o] \in Int
      BY <2>9, OutpointValue
    <3>2. Worth(O \ Q) = Worth(O) - Worth(Q)
      BY <2>7, <2>9, <3>1, SumOfPart DEF Worth
    <3>3. (O \ Q) \cap P = {} /\ \A o \in (O \ Q) \cup P : Value[o] \in Int
      BY <2>7, <3>1
    <3>4. Worth((O \ Q) \cup P) = Worth(O \ Q) + Worth(P)
      BY <2>9, <3>3, SumOfUnion DEF Worth
    <3> QED BY <3>2, <3>4
  <2>12. \A j \in 1..(i + 1) : f[j] \in Int
    <3>1. f[k] \in Int
      BY <2>5, <2>10
    <3>2. \A j \in 1..(i + 1) : j \in 1..i \/ j = k
      BY DEF k
    <3> QED BY <2>1, <3>1, <3>2
  <2>13. SumFunctionOnSet(f, 1..(i + 1)) = SumFunctionOnSet(f, 1..i) + f[i + 1]
    <3>1. 1 \in Int /\ i \in Int /\ 1 <= i + 1
      OBVIOUS
    <3> QED BY <2>12, <3>1, SumToNext
  <2>14. SumFunctionOnSet(f, 1..(i + 1)) = Worth(Owned(left(k), address))
    <3>1. f[i + 1] = f[k]
      BY DEF k
    <3> QED BY <2>1, <2>5, <2>7, <2>10, <2>11, <2>13, <3>1
  <2> QED BY <2>6, <2>12, <2>14 DEF k
<1>4. n \in Good
  <2> HIDE DEF Good
  <2> QED BY <1>1, <1>2, <1>3, IntervalInduction
<1>5. SumFunctionOnSet(f, 1..n) = Worth(Owned(left(n), address)) /\ Held(left(n))
  BY <1>1, <1>4
<1> HIDE DEF left
<1> QED BY <1>1, <1>5

\* After any reorganisation the history of an address adds up to its balance,
\* for every chain whose transactions occur once and spend the outputs of one
\* address each, provided that no sum of outputs wraps.
THEOREM HistoryIsBalance == Spec => [](NoSumWraps => HistoryAddsUp)
<1>1. StoreInv /\ NoSumWraps => HistoryAddsUp
  <2> DEFINE txs == ChainTransactions
             n == Len(txs)
  <2> SUFFICES ASSUME StoreInv, NoSumWraps, NoRepeatedTransaction,
                      \A tx \in ToSet(txs) : OneSource(tx), NEW address
               PROVE  Balance(utxo_set \ Bootstrap, address) = HistoryTotal(address)
    BY DEF HistoryAddsUp
  <2>1. txs \in Seq(Proper)
    BY ChainIsProper, ChainOf
  <2>2. Fresh(txs) /\ Accounts(txs, utxo_set)
    BY ChainAccounts DEF Fresh, NoRepeatedTransaction
  <2> HIDE DEF txs
  <2>3. DOMAIN txs = 1..n /\ \A k \in 1..n : OneSource(txs[k])
    BY <2>1 DEF ToSet
  <2> DEFINE f == [ k \in 1..n |-> Change(HistoryLine(txs, k, address)) ]
             O == Owned(utxo_set, address)
  <2>4. SumFunctionOnSet(f, 1..n) = Worth(O) /\ Held(utxo_set)
    BY <2>1, <2>2, <2>3, LinesAddUp
  <2>5. HistoryTotal(address) = SumFunction(f)
    BY <2>3 DEF HistoryTotal, Change, txs
  <2>6. SumFunction(f) = SumFunctionOnSet(f, 1..n)
    BY DEF SumFunction
  <2>7. Balance(utxo_set \ Bootstrap, address) = ValueOf(O)
    BY DEF Balance, ValueOf, Owned
  <2>8. O \in SUBSET utxo_set
    BY DEF Owned
  <2> HIDE DEF O, f
  <2>9. ValueOf(O) = Worth(O)
    <3>1. O \in SUBSET Outpoints /\ IsFiniteSet(O)
      BY <2>4, <2>8, FS_Subset DEF Held
    <3> QED BY <3>1, WorthOfSet
  <2> QED BY <2>4, <2>5, <2>6, <2>7, <2>9
<1> QED BY <1>1, StoreInvariant, PTL
=============================================================================
