----------------------------- MODULE AgentProofs -----------------------------
(***************************************************************************)
(* The promises of the agents' records, for any number of runs, agents,    *)
(* policies and sessions.                                                  *)
(*                                                                         *)
(* The token ledger (RunLedger): usage is settled with its run, a deleted  *)
(* agent keeps no run, the reservations that a new run joins fit into      *)
(* every policy that admitted it, and the ledger implements the account of *)
(* RunAccount.  The amounts are sums over sets of runs.  What is needed of *)
(* sums is proved first, by minimal counterexamples: among the subsets of  *)
(* a finite set that a fact is wrong for there is a least one.             *)
(*                                                                         *)
(* Provider sessions (SessionRollover): the invariant SessionInv says what *)
(* a binding may rely on between its checks and its writes: the run still  *)
(* replaces the session it was told to, and a predecessor that is closed   *)
(* by then was replaced by the same session before (a replay) or has a     *)
(* winner (a convergence).  All steps but those of a binding are           *)
(* QuietSteps, which only retire sessions and only forget replacements.    *)
(***************************************************************************)
EXTENDS RunLedger, SessionRollover, FiniteSetTheorems, WellFoundedInduction,
        NaturalsInduction, SequenceTheorems, TLAPS

-----------------------------------------------------------------------------
(* Sums over finite sets.                                                  *)

\* The recursion of the library's fold.
Pick(s) == CHOOSE x \in s : TRUE
IsSumOf(g, f, S) ==
    g = [s \in SUBSET S |-> IF s = {} THEN 0 ELSE f[Pick(s)] + g[s \ {Pick(s)}]]

\* The library's sum of a function over a set, as the recursive function it stands for.
LEMMA SumIsFold ==
  ASSUME NEW f, NEW S
  PROVE  SumFunctionOnSet(f, S) = (CHOOSE g : IsSumOf(g, f, S))[S]
  BY DEF SumFunctionOnSet, FoldFunctionOnSet, MapThenFoldSet, IsSumOf, Pick

\* A set of subsets of a finite set has a member none of whose strict subsets is in it.
LEMMA LeastSubset ==
  ASSUME NEW S, IsFiniteSet(S), NEW Bad, Bad \subseteq SUBSET S, Bad # {}
  PROVE  \E T \in Bad : \A U \in Bad : ~(U \subseteq T /\ U # T)
<1>1. IsWellFoundedOn(StrictSubsetOrdering(S), SUBSET S)
  BY FS_StrictSubsetOrderingWellFounded, FS_FiniteSubsetsOfFinite
<1>2. \E T \in Bad : \A U \in Bad : ~(<<U, T>> \in StrictSubsetOrdering(S))
  BY <1>1, WFMin
<1>3. QED  BY <1>2 DEF StrictSubsetOrdering

\* What CHOOSE takes from a set is in it.
LEMMA PickIn == ASSUME NEW S, S # {} PROVE Pick(S) \in S
  BY DEF Pick

\* Two such functions agree where both are defined.
LEMMA IsSumUnique ==
  ASSUME NEW f, NEW S, NEW T, NEW g, NEW h, IsSumOf(g, f, S), IsSumOf(h, f, T),
         IsFiniteSet(S), NEW U \in SUBSET (S \cap T)
  PROVE  g[U] = h[U]
<1> DEFINE Bad == {V \in SUBSET (S \cap T) : g[V] # h[V]}
<1>1. SUFFICES ASSUME Bad # {} PROVE FALSE  OBVIOUS
<1>2. IsFiniteSet(S \cap T)  BY FS_Subset
<1>3. PICK V \in Bad : \A W \in Bad : ~(W \subseteq V /\ W # V)
  <2> HIDE DEF Bad
  <2>1. Bad \subseteq SUBSET (S \cap T)  BY DEF Bad
  <2>2. QED  BY <1>1, <1>2, <2>1, LeastSubset
<1>4. g[V] = IF V = {} THEN 0 ELSE f[Pick(V)] + g[V \ {Pick(V)}]
  BY DEF IsSumOf
<1>5. h[V] = IF V = {} THEN 0 ELSE f[Pick(V)] + h[V \ {Pick(V)}]
  BY DEF IsSumOf
<1>6. V # {}  BY <1>4, <1>5
<1>7. V \ {Pick(V)} \in SUBSET (S \cap T) /\ V \ {Pick(V)} # V
  BY <1>6, PickIn
<1>8. g[V \ {Pick(V)}] = h[V \ {Pick(V)}]  BY <1>3, <1>7
<1>9. QED  BY <1>4, <1>5, <1>8

\* There is one for every finite set: below a least set without one it can be put together
\* from the values that its strict subsets have.
LEMMA IsSumExists ==
  ASSUME NEW f, NEW S, IsFiniteSet(S)
  PROVE  \E g : IsSumOf(g, f, S)
<1> DEFINE Bad == {T \in SUBSET S : ~ \E g : IsSumOf(g, f, T)}
<1>1. SUFFICES ASSUME Bad # {} PROVE FALSE  OBVIOUS
<1>2. PICK T \in Bad : \A U \in Bad : ~(U \subseteq T /\ U # T)
  <2> HIDE DEF Bad
  <2>1. Bad \subseteq SUBSET S  BY DEF Bad
  <2>2. QED  BY <1>1, <2>1, LeastSubset
<1> DEFINE Sum(U) == (CHOOSE g : IsSumOf(g, f, U))[U]
           G == [U \in SUBSET T |-> IF U = {} THEN 0 ELSE f[Pick(U)] + Sum(U \ {Pick(U)})]
<1>3. ASSUME NEW U, U \subseteq T, U # T
      PROVE  Sum(U) = IF U = {} THEN 0 ELSE f[Pick(U)] + Sum(U \ {Pick(U)})
  <2>1. IsSumOf((CHOOSE g : IsSumOf(g, f, U)), f, U)
    <3>1. \E g : IsSumOf(g, f, U)  BY <1>2, <1>3
    <3>2. QED  BY <3>1
  <2> DEFINE u == CHOOSE g : IsSumOf(g, f, U)
  <2>2. u[U] = IF U = {} THEN 0 ELSE f[Pick(U)] + u[U \ {Pick(U)}]
    <3> HIDE DEF u
    <3>1. IsSumOf(u, f, U)  BY <2>1 DEF u
    <3>2. QED  BY <3>1 DEF IsSumOf
  <2>3. CASE U = {}  BY <2>2, <2>3
  <2>4. CASE U # {}
    <3> DEFINE W == U \ {Pick(U)}
               w == CHOOSE g : IsSumOf(g, f, W)
    <3>1. W \subseteq T /\ W # T /\ W \subseteq U  BY <1>3
    <3>2. IsSumOf(w, f, W)
      <4>1. \E g : IsSumOf(g, f, W)
        <5>1. W \in SUBSET S /\ W \notin Bad  BY <1>2, <3>1
        <5>2. QED  BY <5>1
      <4>2. QED  BY <4>1
    <3>3. u[W] = w[W]
      <4> HIDE DEF u, w, W
      <4>1. IsSumOf(u, f, U)  BY <2>1 DEF u
      <4>2. IsFiniteSet(U)  BY <1>2, <1>3, FS_Subset
      <4>3. W \in SUBSET (U \cap W)  BY <3>1
      <4>4. QED  BY <3>2, <4>1, <4>2, <4>3, IsSumUnique
    <3>4. QED  BY <2>2, <2>4, <3>3
  <2>5. QED  BY <2>3, <2>4
<1>4. IsSumOf(G, f, T)
  <2>1. ASSUME NEW U \in SUBSET T, U # {}
        PROVE  G[U \ {Pick(U)}] = Sum(U \ {Pick(U)})
    <3> DEFINE W == U \ {Pick(U)}
    <3>1. W \subseteq T /\ W # T  BY <2>1, PickIn
    <3>2. G[W] = IF W = {} THEN 0 ELSE f[Pick(W)] + Sum(W \ {Pick(W)})
      <4> HIDE DEF Sum, W
      <4>1. QED  BY <3>1
    <3>3. Sum(W) = IF W = {} THEN 0 ELSE f[Pick(W)] + Sum(W \ {Pick(W)})
      <4> HIDE DEF Sum, W, G
      <4>1. QED  BY <1>3, <3>1
    <3>4. QED  BY <3>2, <3>3
  <2>2. ASSUME NEW U \in SUBSET T
        PROVE  G[U] = IF U = {} THEN 0 ELSE f[Pick(U)] + G[U \ {Pick(U)}]
    <3>1. CASE U = {}  BY <3>1
    <3>2. CASE U # {}
      <4>1. G[U] = f[Pick(U)] + Sum(U \ {Pick(U)})
        <5> HIDE DEF Sum
        <5>1. QED  BY <3>2
      <4>2. G[U \ {Pick(U)}] = Sum(U \ {Pick(U)})
        <5> HIDE DEF Sum, G
        <5>1. QED  BY <2>1, <3>2
      <4>3. QED
        <5> HIDE DEF Sum, G
        <5>1. QED  BY <3>2, <4>1, <4>2
    <3>3. QED
        <4> HIDE DEF Sum, G
        <4>1. QED BY <3>1, <3>2
  <2>3. G = [U \in SUBSET T |-> G[U]]
    <3> HIDE DEF Sum
    <3>1. QED  OBVIOUS
  <2>4. QED
    <3> HIDE DEF G
    <3>1. [U \in SUBSET T |-> G[U]] = [U \in SUBSET T |-> IF U = {} THEN 0 ELSE f[Pick(U)] + G[U \ {Pick(U)}]]
      BY <2>2
    <3>2. QED  BY <2>3, <3>1 DEF IsSumOf
<1>5. QED
  <2> HIDE DEF G
  <2>1. QED  BY <1>2, <1>4

\* The sum satisfies its recursion.
LEMMA SumUnfolds ==
  ASSUME NEW f, NEW S, IsFiniteSet(S)
  PROVE  SumFunctionOnSet(f, S) = IF S = {} THEN 0
                                  ELSE f[Pick(S)] + SumFunctionOnSet(f, S \ {Pick(S)})
<1> DEFINE g == CHOOSE h : IsSumOf(h, f, S)
           W == S \ {Pick(S)}
           w == CHOOSE h : IsSumOf(h, f, W)
<1>1. IsSumOf(g, f, S) /\ SumFunctionOnSet(f, S) = g[S]
  BY IsSumExists, SumIsFold
<1>2. IsSumOf(w, f, W) /\ SumFunctionOnSet(f, W) = w[W]
  <2>1. IsFiniteSet(W)  BY FS_Subset
  <2>2. QED  BY <2>1, IsSumExists, SumIsFold
<1>3. W \in SUBSET (S \cap W)  OBVIOUS
<1>4. g[W] = w[W]
  <2> HIDE DEF g, w, W
  <2>1. QED  BY <1>1, <1>2, <1>3, IsSumUnique
<1>5. g[S] = IF S = {} THEN 0 ELSE f[Pick(S)] + g[W]
  <2> HIDE DEF g
  <2>1. QED  BY <1>1 DEF IsSumOf
<1>6. QED
  <2> HIDE DEF g, w
  <2>1. QED  BY <1>1, <1>2, <1>4, <1>5

\* A sum of naturals is one.
LEMMA SumIsNat ==
  ASSUME NEW D, NEW f \in [D -> Nat], NEW S \in SUBSET D, IsFiniteSet(S)
  PROVE  SumFunctionOnSet(f, S) \in Nat
<1> DEFINE Bad == {T \in SUBSET S : SumFunctionOnSet(f, T) \notin Nat}
<1>1. SUFFICES ASSUME Bad # {} PROVE FALSE  OBVIOUS
<1>2. PICK T \in Bad : \A U \in Bad : ~(U \subseteq T /\ U # T)
  <2> HIDE DEF Bad
  <2>1. Bad \subseteq SUBSET S  BY DEF Bad
  <2>2. QED  BY <1>1, <2>1, LeastSubset
<1>3. IsFiniteSet(T)  BY <1>2, FS_Subset
<1>4. SumFunctionOnSet(f, T) = IF T = {} THEN 0
                               ELSE f[Pick(T)] + SumFunctionOnSet(f, T \ {Pick(T)})
  BY <1>3, SumUnfolds
<1>5. T # {}  BY <1>2, <1>4
<1>6. T \ {Pick(T)} \subseteq T /\ T \ {Pick(T)} # T /\ Pick(T) \in T  BY <1>5, PickIn
<1>7. SumFunctionOnSet(f, T \ {Pick(T)}) \in Nat  BY <1>2, <1>6
<1>8. f[Pick(T)] \in Nat  BY <1>2, <1>6
<1>9. QED  BY <1>2, <1>4, <1>5, <1>7, <1>8

\* A sum does not depend on the order: any element may be taken out first.
LEMMA SumRemoves ==
  ASSUME NEW D, NEW f \in [D -> Nat], NEW S \in SUBSET D, IsFiniteSet(S), NEW x \in S
  PROVE  SumFunctionOnSet(f, S) = f[x] + SumFunctionOnSet(f, S \ {x})
<1> DEFINE Bad == {T \in SUBSET S : \E y \in T :
                      SumFunctionOnSet(f, T) # f[y] + SumFunctionOnSet(f, T \ {y})}
<1>1. SUFFICES ASSUME Bad # {} PROVE FALSE  OBVIOUS
<1>2. PICK T \in Bad : \A U \in Bad : ~(U \subseteq T /\ U # T)
  <2> HIDE DEF Bad
  <2>1. Bad \subseteq SUBSET S  BY DEF Bad
  <2>2. QED  BY <1>1, <2>1, LeastSubset
<1>3. PICK y \in T : SumFunctionOnSet(f, T) # f[y] + SumFunctionOnSet(f, T \ {y})
  BY <1>2
<1> DEFINE p == Pick(T)
<1>4. p \in T  BY <1>3, PickIn
<1>5. \A U \in SUBSET S : IsFiniteSet(U)  BY FS_Subset
<1>6. SumFunctionOnSet(f, T) = f[p] + SumFunctionOnSet(f, T \ {p})
  BY <1>2, <1>4, <1>5, SumUnfolds
<1>7. y # p  BY <1>3, <1>6
<1>8. SumFunctionOnSet(f, T \ {p}) = f[y] + SumFunctionOnSet(f, (T \ {p}) \ {y})
  <2>1. T \ {p} \in SUBSET S /\ T \ {p} # T /\ y \in T \ {p}  BY <1>2, <1>4, <1>7
  <2>2. QED  BY <1>2, <2>1
<1>9. SumFunctionOnSet(f, T \ {y}) = f[p] + SumFunctionOnSet(f, (T \ {y}) \ {p})
  <2>1. T \ {y} \in SUBSET S /\ T \ {y} # T /\ p \in T \ {y}  BY <1>2, <1>4, <1>7
  <2>2. QED  BY <1>2, <2>1
<1>10. (T \ {p}) \ {y} = (T \ {y}) \ {p}  OBVIOUS
<1>11. SumFunctionOnSet(f, (T \ {p}) \ {y}) \in Nat /\ f[y] \in Nat /\ f[p] \in Nat
  <2>1. (T \ {p}) \ {y} \in SUBSET D  BY <1>2
  <2>2. IsFiniteSet((T \ {p}) \ {y})  BY <1>2, <1>5
  <2>3. QED  BY <1>2, <1>4, <2>1, <2>2, SumIsNat
<1> DEFINE rest == SumFunctionOnSet(f, (T \ {p}) \ {y})
<1>12. /\ SumFunctionOnSet(f, T) = f[p] + (f[y] + rest)
       /\ SumFunctionOnSet(f, T \ {y}) = f[p] + rest
  BY <1>6, <1>8, <1>9, <1>10
<1>13. f[p] + (f[y] + rest) = f[y] + (f[p] + rest)
  <2> HIDE DEF p, rest
  <2>1. \A i, j, k \in Nat : i + (j + k) = j + (i + k)  OBVIOUS
  <2>2. rest \in Nat  BY <1>11 DEF rest
  <2>3. QED  BY <1>11, <2>1, <2>2
<1>14. QED
  <2> HIDE DEF p, rest
  <2>1. QED  BY <1>3, <1>12, <1>13

\* A sum over a larger set is no smaller.
LEMMA SumGrows ==
  ASSUME NEW D, NEW f \in [D -> Nat], NEW T \in SUBSET D, IsFiniteSet(T), NEW S \in SUBSET T
  PROVE  SumFunctionOnSet(f, S) <= SumFunctionOnSet(f, T)
<1> DEFINE Bad == {U \in SUBSET T : S \subseteq U /\
                     ~(SumFunctionOnSet(f, S) <= SumFunctionOnSet(f, U))}
<1>1. SUFFICES ASSUME Bad # {} PROVE FALSE  OBVIOUS
<1>2. PICK U \in Bad : \A V \in Bad : ~(V \subseteq U /\ V # U)
  <2> HIDE DEF Bad
  <2>1. Bad \subseteq SUBSET T  BY DEF Bad
  <2>2. QED  BY <1>1, <2>1, LeastSubset
<1>3. \A V \in SUBSET T : IsFiniteSet(V) /\ SumFunctionOnSet(f, V) \in Nat
  <2>1. ASSUME NEW V \in SUBSET T PROVE IsFiniteSet(V) /\ SumFunctionOnSet(f, V) \in Nat
    <3>1. IsFiniteSet(V)  BY FS_Subset
    <3>2. V \in SUBSET D  OBVIOUS
    <3>3. QED  BY <3>1, <3>2, SumIsNat
  <2>2. QED  BY <2>1
<1>4. S # U  BY <1>2, <1>3
<1>5. PICK x \in U : x \notin S  BY <1>2, <1>4
<1>6. SumFunctionOnSet(f, U) = f[x] + SumFunctionOnSet(f, U \ {x})
  <2>1. U \in SUBSET D /\ IsFiniteSet(U)  BY <1>2, <1>3
  <2>2. QED  BY <1>5, <2>1, SumRemoves
<1>7. SumFunctionOnSet(f, S) <= SumFunctionOnSet(f, U \ {x})  BY <1>2, <1>5
<1>8. f[x] \in Nat /\ SumFunctionOnSet(f, U \ {x}) \in Nat /\ SumFunctionOnSet(f, S) \in Nat
  BY <1>2, <1>3, <1>5
<1>9. QED  BY <1>2, <1>6, <1>7, <1>8

\* Only the values on the set count.
LEMMA SumOfSame ==
  ASSUME NEW f, NEW g, NEW S, IsFiniteSet(S), \A x \in S : f[x] = g[x]
  PROVE  SumFunctionOnSet(f, S) = SumFunctionOnSet(g, S)
<1> DEFINE Bad == {T \in SUBSET S : SumFunctionOnSet(f, T) # SumFunctionOnSet(g, T)}
<1>1. SUFFICES ASSUME Bad # {} PROVE FALSE  OBVIOUS
<1>2. PICK T \in Bad : \A U \in Bad : ~(U \subseteq T /\ U # T)
  <2> HIDE DEF Bad
  <2>1. Bad \subseteq SUBSET S  BY DEF Bad
  <2>2. QED  BY <1>1, <2>1, LeastSubset
<1>3. IsFiniteSet(T)  BY <1>2, FS_Subset
<1>4. SumFunctionOnSet(f, T) = IF T = {} THEN 0
                               ELSE f[Pick(T)] + SumFunctionOnSet(f, T \ {Pick(T)})
  BY <1>3, SumUnfolds
<1>5. SumFunctionOnSet(g, T) = IF T = {} THEN 0
                               ELSE g[Pick(T)] + SumFunctionOnSet(g, T \ {Pick(T)})
  BY <1>3, SumUnfolds
<1>6. T # {}  BY <1>2, <1>4, <1>5
<1>7. T \ {Pick(T)} \subseteq T /\ T \ {Pick(T)} # T /\ Pick(T) \in T  BY <1>6, PickIn
<1>8. SumFunctionOnSet(f, T \ {Pick(T)}) = SumFunctionOnSet(g, T \ {Pick(T)})  BY <1>2, <1>7
<1>9. f[Pick(T)] = g[Pick(T)]  BY <1>2, <1>7
<1>10. QED  BY <1>2, <1>4, <1>5, <1>8, <1>9
-----------------------------------------------------------------------------
(* The invariant.                                                          *)

\* What a decided start still relies on: with its own reservation every policy of its plan
\* stays within its limit.
Fits(x) == \A p \in x.plan : ActiveUse(p) + RunReserveTokens(p) <= lpolicy[p].limit

Start == [run : LRuns, agent : LAgents, plan : SUBSET LPolicies, decided : BOOLEAN,
          actual : UNION {[q -> Nat] : q \in SUBSET LPolicies}]

\* A start in progress has the owner's lock to itself, works with the policies as they are,
\* for a run that is not there yet and an agent that cannot be deleted meanwhile.
StartHoldsItsLocks ==
    /\ \A x, y \in starting : x = y
    /\ \A x \in starting :
          /\ x \in Start /\ x.plan = PlanOf(x.agent)
          /\ \A p \in x.plan : x.actual[p] \in Nat
          /\ lrun[x.run].state = "none" /\ lagent[x.agent]
          /\ x.decided => Fits(x)

\* Only a run that is no gate has a usage row; a run belongs to an agent.
RowsAgree ==
    \A r \in LRuns :
        /\ usage[r].state # "none" <=> (lrun[r].state # "none" /\ ~ lrun[r].gate)
        /\ lrun[r].state # "none" => lrun[r].agent \in LAgents

LedgerInv ==
    LedgerTypeOK /\ StartHoldsItsLocks /\ RowsAgree /\ SettledWithItsRun /\ DeletedAgentHasNoRun

-----------------------------------------------------------------------------
(* The sums of the ledger.                                                 *)

\* All are natural numbers, and so is what a run would reserve.
LEMMA UseIsNat ==
  ASSUME LedgerTypeOK, NEW p \in LPolicies
  PROVE  /\ ActualUse(p) \in Nat /\ UnknownUse(p) \in Nat /\ ActiveUse(p) \in Nat
         /\ RunReserveTokens(p) \in 0 .. RunReserve
         /\ lpolicy[p].limit \in Nat
  <1>1. \A S \in SUBSET LRuns : IsFiniteSet(S)
    BY LedgerConstants, FS_Subset
  <1>2. [r \in LRuns |-> usage[r].actual] \in [LRuns -> Nat]
    BY DEF LedgerTypeOK, Usage
  <1>3. [r \in LRuns |-> resv[r][p].accounted] \in [LRuns -> Nat]
    BY LedgerConstants DEF LedgerTypeOK, Resv
  <1>4. [r \in LRuns |-> resv[r][p].reserved] \in [LRuns -> Nat]
    BY LedgerConstants DEF LedgerTypeOK, Resv
  <1>5. ActualUse(p) \in Nat
    <2> DEFINE S == {r \in LRuns : usage[r].state = "settled" /\ usage[r].month /\ InScope(r, p)}
    <2>1. S \in SUBSET LRuns
      OBVIOUS
    <2>2. QED
      <3> HIDE DEF S
      <3>1. SumFunctionOnSet([r \in LRuns |-> usage[r].actual], S) \in Nat
        BY <1>1, <1>2, <2>1, SumIsNat
      <3>2. QED  BY <3>1 DEF ActualUse, S
  <1>6. UnknownUse(p) \in Nat
    <2> DEFINE S == {r \in LRuns : resv[r][p].state = "settled" /\ usage[r].month}
    <2>1. S \in SUBSET LRuns
      OBVIOUS
    <2>2. QED
      <3> HIDE DEF S
      <3>1. SumFunctionOnSet([r \in LRuns |-> resv[r][p].accounted], S) \in Nat
        BY <1>1, <1>3, <2>1, SumIsNat
      <3>2. QED  BY <3>1 DEF UnknownUse, S
  <1>7. ActiveUse(p) \in Nat
    <2>1. Reserving(p) \in SUBSET LRuns
      BY DEF Reserving
    <2>2. QED  BY <1>1, <1>4, <2>1, SumIsNat DEF ActiveUse
  <1>8. lpolicy[p].limit \in Nat
    <2>1. lpolicy[p] \in [enabled : BOOLEAN, limit : LimitChoices \cup {0}]
      BY Zenon DEF LedgerTypeOK
    <2>2. lpolicy[p].limit \in LimitChoices \cup {0}
      BY Zenon, <2>1
    <2>3. LimitChoices \subseteq Nat
      BY Zenon, LedgerConstants
    <2>4. CASE lpolicy[p].limit \in LimitChoices
      BY Zenon, <2>3, <2>4
    <2>5. CASE lpolicy[p].limit = 0
      BY <2>5
    <2>6. QED  BY Zenon, <2>2, <2>4, <2>5
  <1>9. RunReserveTokens(p) \in 0 .. RunReserve
    BY <1>8, LedgerConstants DEF RunReserveTokens
  <1>10. QED  BY <1>5, <1>6, <1>7, <1>8, <1>9

\* Where reservations are only given back, no scope has more in use than before.
LEMMA UseShrinks ==
  ASSUME LedgerTypeOK, LedgerTypeOK', NEW p \in LPolicies,
         \A r \in LRuns : /\ resv'[r][p].reserved = resv[r][p].reserved
                          /\ resv'[r][p].state = "active" => resv[r][p].state = "active"
  PROVE  ActiveUse(p)' <= ActiveUse(p)
  <1> DEFINE f == [r \in LRuns |-> resv[r][p].reserved]
             S == Reserving(p)
             T == Reserving(p)'
  <1>1. [r \in LRuns |-> resv'[r][p].reserved] = f
    OBVIOUS
  <1>2. T \in SUBSET S /\ S \in SUBSET LRuns
    BY DEF Reserving
  <1>3. f \in [LRuns -> Nat]
    BY LedgerConstants DEF LedgerTypeOK, Resv
  <1>4. IsFiniteSet(S)
    BY <1>2, LedgerConstants, FS_Subset
  <1>5. SumFunctionOnSet(f, T) <= SumFunctionOnSet(f, S)
    <2> HIDE DEF f, S, T
    <2>1. QED  BY <1>2, <1>3, <1>4, SumGrows
  <1>6. ActiveUse(p)' = SumFunctionOnSet(f, T)
    BY <1>1 DEF ActiveUse
  <1>7. QED  BY <1>5, <1>6 DEF ActiveUse

\* A run that joins adds what it reserves.
LEMMA UseJoined ==
  ASSUME LedgerTypeOK, LedgerTypeOK', NEW p \in LPolicies, NEW q \in LRuns,
         resv[q][p].state # "active", resv'[q][p].state = "active",
         \A r \in LRuns : r # q => resv'[r] = resv[r]
  PROVE  ActiveUse(p)' = resv'[q][p].reserved + ActiveUse(p)
  <1> DEFINE f == [r \in LRuns |-> resv[r][p].reserved]
             g == [r \in LRuns |-> resv'[r][p].reserved]
             S == Reserving(p)
             T == Reserving(p)'
  <1>1. T \in SUBSET LRuns /\ q \in T /\ T \ {q} = S /\ S \in SUBSET LRuns
    BY DEF Reserving
  <1>2. g \in [LRuns -> Nat]
    BY LedgerConstants DEF LedgerTypeOK, Resv
  <1>3. IsFiniteSet(T) /\ IsFiniteSet(S)
    BY <1>1, LedgerConstants, FS_Subset
  <1>4. SumFunctionOnSet(g, T) = g[q] + SumFunctionOnSet(g, S)
    <2> HIDE DEF g, S, T
    <2>1. SumFunctionOnSet(g, T) = g[q] + SumFunctionOnSet(g, T \ {q})
      BY <1>1, <1>2, <1>3, SumRemoves
    <2>2. QED  BY <1>1, <2>1
  <1>5. \A r \in S : g[r] = f[r]
    BY DEF Reserving
  <1>6. SumFunctionOnSet(g, S) = SumFunctionOnSet(f, S)
    <2> HIDE DEF f, g, S
    <2>1. QED  BY <1>3, <1>5, SumOfSame
  <1>7. ActiveUse(p)' = SumFunctionOnSet(g, T) /\ ActiveUse(p) = SumFunctionOnSet(f, S)
    BY DEF ActiveUse
  <1>8. QED
    <2>1. g[q] = resv'[q][p].reserved
      OBVIOUS
    <2>2. QED
      <3> HIDE DEF f, g, S, T
      <3>1. QED  BY <1>4, <1>6, <1>7, <2>1

\* A settlement closes the pending rows that it names with their reservations, and touches
\* nothing else.
LEMMA SettlementShape ==
  ASSUME LedgerTypeOK, NEW rs, SettleRuns(rs)
  PROVE  /\ usage' \in [LRuns -> Usage]
         /\ resv' \in [LRuns -> [LPolicies -> Resv]]
         /\ \A r \in LRuns :
               IF r \in rs /\ usage[r].state = "pending"
               THEN /\ usage'[r].state \in {"settled", "released", "usage_unknown"}
                    /\ \A p \in LPolicies : resv'[r][p].state # "active"
               ELSE usage'[r] = usage[r] /\ resv'[r] = resv[r]
         /\ \A r \in LRuns, p \in LPolicies :
               /\ resv'[r][p].reserved = resv[r][p].reserved
               /\ resv'[r][p].state = "active" => resv[r][p].state = "active"
  <1> DEFINE Due(r) == r \in rs /\ usage[r].state = "pending"
  <1>1. \A r \in LRuns : SettledState(r) \in {"settled", "released", "usage_unknown"}
    BY DEF SettledState
  <1>2. usage' = [r \in LRuns |->
              IF Due(r) THEN [usage[r] EXCEPT !.state = SettledState(r),
                                !.actual = IF SettledState(r) = "settled" THEN lrun[r].tokens ELSE 0]
              ELSE usage[r]]
    BY DEF SettleRuns
  <1>3. resv' = [r \in LRuns |->
              IF Due(r)
              THEN [p \in LPolicies |->
                      IF resv[r][p].state # "active" THEN resv[r][p]
                      ELSE [resv[r][p] EXCEPT
                              !.state = IF SettledState(r) = "released" THEN "released" ELSE "settled",
                              !.accounted = IF SettledState(r) = "usage_unknown" THEN resv[r][p].reserved ELSE 0]]
              ELSE resv[r]]
    BY DEF SettleRuns
  <1> HIDE DEF Due
  <1>4. ASSUME NEW r \in LRuns
        PROVE  /\ usage'[r] \in Usage
               /\ IF Due(r) THEN usage'[r].state \in {"settled", "released", "usage_unknown"}
                  ELSE usage'[r] = usage[r]
    <2>1. usage[r] \in Usage /\ lrun[r].tokens \in 0 .. MaxTokens
      BY DEF LedgerTypeOK, LRun
    <2>2. CASE Due(r)
      <3>1. usage'[r] = [usage[r] EXCEPT !.state = SettledState(r),
                           !.actual = IF SettledState(r) = "settled" THEN lrun[r].tokens ELSE 0]
        BY <1>2, <2>2
      <3>2. PICK n \in 0 .. MaxTokens, st \in {"settled", "released", "usage_unknown"} :
              usage'[r] = [usage[r] EXCEPT !.state = st, !.actual = n]
        <4>1. 0 \in 0 .. MaxTokens
          BY LedgerConstants
        <4>2. (IF SettledState(r) = "settled" THEN lrun[r].tokens ELSE 0) \in 0 .. MaxTokens
          BY <2>1, <4>1
        <4>3. QED  BY <1>1, <3>1, <4>2
      <3>3. usage'[r] \in Usage /\ usage'[r].state = st
        BY <2>1, <3>2 DEF Usage
      <3>4. QED  BY <2>2, <3>2, <3>3
    <2>3. CASE ~ Due(r)
      BY <1>2, <2>1, <2>3
    <2>4. QED  BY <2>2, <2>3
  <1>5. ASSUME NEW r \in LRuns, NEW p \in LPolicies
        PROVE  /\ resv'[r][p] \in Resv
               /\ resv'[r][p].reserved = resv[r][p].reserved
               /\ resv'[r][p].state = "active" => resv[r][p].state = "active" /\ ~ Due(r)
    <2>1. resv[r][p] \in Resv
      BY DEF LedgerTypeOK
    <2>2. CASE ~ Due(r) \/ resv[r][p].state # "active"
      BY <1>3, <2>1, <2>2
    <2>3. CASE Due(r) /\ resv[r][p].state = "active"
      <3>1. resv'[r][p] = [resv[r][p] EXCEPT
              !.state = IF SettledState(r) = "released" THEN "released" ELSE "settled",
              !.accounted = IF SettledState(r) = "usage_unknown" THEN resv[r][p].reserved ELSE 0]
        BY <1>3, <2>3
      <3>2. PICK n \in 0 .. RunReserve, st \in {"settled", "released"} :
              resv'[r][p] = [resv[r][p] EXCEPT !.state = st, !.accounted = n]
        <4>1. 0 \in 0 .. RunReserve
          BY LedgerConstants
        <4>2. resv[r][p].reserved \in 0 .. RunReserve
          BY <2>1 DEF Resv
        <4>3. (IF SettledState(r) = "usage_unknown" THEN resv[r][p].reserved ELSE 0) \in 0 .. RunReserve
          BY <4>1, <4>2
        <4>4. (IF SettledState(r) = "released" THEN "released" ELSE "settled") \in {"settled", "released"}
          OBVIOUS
        <4>5. QED  BY <3>1, <4>3, <4>4
      <3>3. /\ resv'[r][p] \in Resv
            /\ resv'[r][p].reserved = resv[r][p].reserved
            /\ resv'[r][p].state # "active"
        BY <2>1, <3>2 DEF Resv
      <3>4. QED  BY <3>3
    <2>4. QED  BY <2>2, <2>3
  <1>6. \A r \in LRuns : ~ Due(r) => resv'[r] = resv[r]
    BY <1>3
  <1>7. resv' \in [LRuns -> [LPolicies -> Resv]]
    <2>1. \A r \in LRuns : resv'[r] = [p \in LPolicies |-> resv'[r][p]]
      BY <1>3 DEF LedgerTypeOK
    <2>2. resv' = [r \in LRuns |-> resv'[r]]
      BY <1>3
    <2>3. \A r \in LRuns : resv'[r] \in [LPolicies -> Resv]
      BY <1>5, <2>1
    <2>4. QED  BY <2>2, <2>3
  <1>8. usage' \in [LRuns -> Usage]
    BY <1>2, <1>4
  <1>9. QED  BY <1>4, <1>5, <1>6, <1>7, <1>8 DEF Due
-----------------------------------------------------------------------------
(* Every step keeps the invariant.                                         *)

LEMMA LedgerInvInit == LedgerInit => LedgerInv
  <1> SUFFICES ASSUME LedgerInit PROVE LedgerInv
    OBVIOUS
  <1>1. /\ lagent \in [LAgents -> BOOLEAN]
        /\ lpolicy \in [LPolicies -> [enabled : BOOLEAN, limit : LimitChoices \cup {0}]]
    BY DEF LedgerInit
  <1>2. lrun \in [LRuns -> LRun] /\ usage \in [LRuns -> Usage]
    BY LedgerConstants DEF LedgerInit, LRun, NoLRun, Usage, NoUsage
  <1>3. resv \in [LRuns -> [LPolicies -> Resv]]
    BY LedgerConstants DEF LedgerInit, Resv, NoResv
  <1>4. pedits \in 0 .. MaxPolicyEdits /\ months \in 0 .. MaxMonths /\ starting = {}
    BY LedgerConstants DEF LedgerInit
  <1>5. RowsAgree /\ SettledWithItsRun /\ DeletedAgentHasNoRun
    BY DEF LedgerInit, NoLRun, NoUsage, NoResv, LActive, RowsAgree, SettledWithItsRun,
           DeletedAgentHasNoRun
  <1>6. QED  BY <1>1, <1>2, <1>3, <1>4, <1>5 DEF LedgerInv, LedgerTypeOK, StartHoldsItsLocks

\* The rows that new ones are made from.
LEMMA EmptyRows ==
  NoLRun \in LRun /\ NoUsage \in Usage /\ NoResv \in Resv
  <1>1. 0 \in 0 .. MaxTokens /\ 0 \in 0 .. RunReserve
    BY LedgerConstants
  <1>2. QED  BY <1>1 DEF NoLRun, LRun, NoUsage, Usage, NoResv, Resv

\* The run's row is written and the money left alone: a start in progress is not disturbed
\* unless it is the start of that very run.
LEMMA RunRowStep ==
  ASSUME LedgerInv, NEW r \in LRuns, NEW row \in LRun,
         lrun' = [lrun EXCEPT ![r] = row],
         UNCHANGED <<lpolicy, lagent, usage, resv, starting, pedits, months>>,
         row.state \in LActive, row.agent \in LAgents, lagent[row.agent],
         \/ lrun[r].state \in LActive /\ row.gate = lrun[r].gate
         \/ row.gate /\ Fresh(r)
  PROVE  LedgerInv'
  <1>1. LedgerTypeOK'
    BY DEF LedgerInv, LedgerTypeOK
  <1>2. \A q \in LRuns : lrun'[q] = IF q = r THEN row ELSE lrun[q]
    BY DEF LedgerInv, LedgerTypeOK
  <1>3. StartHoldsItsLocks'
    <2>1. \A x \in starting : x.run # r
      BY DEF LedgerInv, StartHoldsItsLocks, Fresh, LActive
    <2>2. /\ \A a : PlanOf(a)' = PlanOf(a)
          /\ \A x : Fits(x)' <=> Fits(x)
      BY DEF PlanOf, Fits, ActiveUse, Reserving, RunReserveTokens
    <2>3. QED  BY <1>2, <2>1, <2>2 DEF LedgerInv, StartHoldsItsLocks
  <1>4. RowsAgree' /\ SettledWithItsRun'
    BY <1>2 DEF LedgerInv, RowsAgree, SettledWithItsRun, Fresh, LActive, LedgerTypeOK
  <1>5. DeletedAgentHasNoRun'
    BY <1>2 DEF LedgerInv, DeletedAgentHasNoRun
  <1>6. QED  BY <1>1, <1>3, <1>4, <1>5 DEF LedgerInv

LEMMA StepStartGate ==
  ASSUME LedgerInv, NEW r \in LRuns, NEW a \in LAgents, StartGate(r, a)
  PROVE  LedgerInv'
  <1> DEFINE row == [NoLRun EXCEPT !.state = "queued", !.agent = a, !.gate = TRUE]
  <1>1. /\ row \in LRun /\ row.state \in LActive /\ row.agent = a /\ row.gate
    BY EmptyRows DEF LRun, LActive
  <1>2. Fresh(r) /\ lagent[a] /\ lrun' = [lrun EXCEPT ![r] = row]
        /\ UNCHANGED <<lpolicy, lagent, usage, resv, starting, pedits, months>>
    BY DEF StartGate
  <1>3. QED
    <2> HIDE DEF row
    <2>1. QED  BY <1>1, <1>2, RunRowStep

\* An open run belongs to an agent that is still there.
LEMMA OpenRunHasItsAgent ==
  ASSUME LedgerInv, NEW r \in LRuns, lrun[r].state \in LActive
  PROVE  lrun[r] \in LRun /\ lrun[r].agent \in LAgents /\ lagent[lrun[r].agent]
  BY DEF LedgerInv, LedgerTypeOK, RowsAgree, DeletedAgentHasNoRun, LActive

LEMMA StepMarkBackendStarted ==
  ASSUME LedgerInv, NEW r \in LRuns, MarkBackendStarted(r)
  PROVE  LedgerInv'
  <1>1. lrun[r].state \in LActive
    BY DEF MarkBackendStarted, StillOpen
  <1>2. lrun[r] \in LRun /\ lrun[r].agent \in LAgents /\ lagent[lrun[r].agent]
    BY <1>1, OpenRunHasItsAgent
  <1> DEFINE row == [lrun[r] EXCEPT !.state = "running", !.started = TRUE]
  <1>3. /\ row \in LRun /\ row.state \in LActive /\ row.agent = lrun[r].agent
        /\ row.gate = lrun[r].gate
    BY <1>2 DEF LRun, LActive
  <1>4. lrun' = [lrun EXCEPT ![r] = row]
        /\ UNCHANGED <<lpolicy, lagent, usage, resv, starting, pedits, months>>
    BY DEF MarkBackendStarted, LedgerInv, LedgerTypeOK
  <1>5. QED
    <2> HIDE DEF row
    <2>1. QED  BY <1>1, <1>2, <1>3, <1>4, RunRowStep

LEMMA StepUpdateStatus ==
  ASSUME LedgerInv, NEW r \in LRuns, NEW n \in 1 .. MaxTokens, UpdateStatus(r, n)
  PROVE  LedgerInv'
  <1>1. lrun[r].state \in LActive
    BY DEF UpdateStatus, StillOpen
  <1>2. lrun[r] \in LRun /\ lrun[r].agent \in LAgents /\ lagent[lrun[r].agent]
    BY <1>1, OpenRunHasItsAgent
  <1> DEFINE row == [lrun[r] EXCEPT !.tokens = n, !.state = "running"]
  <1>3. /\ row \in LRun /\ row.state \in LActive /\ row.agent = lrun[r].agent
        /\ row.gate = lrun[r].gate
    <2>1. n \in 0 .. MaxTokens
      BY LedgerConstants
    <2>2. QED  BY <1>2, <2>1 DEF LRun, LActive
  <1>4. lrun' = [lrun EXCEPT ![r] = row]
        /\ UNCHANGED <<lpolicy, lagent, usage, resv, starting, pedits, months>>
    BY DEF UpdateStatus, LedgerInv, LedgerTypeOK
  <1>5. QED
    <2> HIDE DEF row
    <2>1. QED  BY <1>1, <1>2, <1>3, <1>4, RunRowStep

-----------------------------------------------------------------------------
(* The three steps of a start.                                             *)

LEMMA StepStartReads ==
  ASSUME LedgerInv, NEW r \in LRuns, NEW a \in LAgents, StartReads(r, a)
  PROVE  LedgerInv'
  <1> DEFINE x == [run |-> r, agent |-> a, plan |-> PlanOf(a), decided |-> FALSE,
                   actual |-> [p \in PlanOf(a) |-> ActualUse(p)]]
  <1>1. starting' = {x} /\ UNCHANGED <<lpolicy, lagent, lrun, usage, resv, pedits, months>>
    BY DEF StartReads, OwnerLockFree
  <1>2. lrun[r].state = "none" /\ lagent[a]
    BY DEF StartReads, Fresh
  <1>3. PlanOf(a)' = PlanOf(a)
    BY <1>1 DEF PlanOf
  <1>4. \A p \in PlanOf(a) : ActualUse(p) \in Nat
    BY UseIsNat DEF LedgerInv, PlanOf, LPolicies
  <1>5. LedgerTypeOK' /\ RowsAgree' /\ SettledWithItsRun' /\ DeletedAgentHasNoRun'
    BY <1>1 DEF LedgerInv, LedgerTypeOK, RowsAgree, SettledWithItsRun, DeletedAgentHasNoRun
  <1>6. StartHoldsItsLocks'
    <2> HIDE DEF x
    <2>1. /\ x.run = r /\ x.agent = a /\ x.plan = PlanOf(a) /\ x.decided = FALSE
          /\ \A p \in x.plan : x.actual[p] = ActualUse(p)
      BY DEF x
    <2>3. x \in Start
      <3> DEFINE q == PlanOf(a)
                 f == [p \in q |-> ActualUse(p)]
      <3>1. q \in SUBSET LPolicies
        BY DEF PlanOf, LPolicies
      <3>2. f \in [q -> Nat]
        BY <1>4
      <3>3. f \in UNION {[z -> Nat] : z \in SUBSET LPolicies}
        <4> HIDE DEF f, q
        <4>1. QED  BY <3>1, <3>2
      <3>4. x = [run |-> r, agent |-> a, plan |-> q, decided |-> FALSE, actual |-> f]
        BY DEF x
      <3>5. QED
        <4> HIDE DEF f, q
        <4>1. QED  BY <3>1, <3>3, <3>4 DEF Start
    <2>4. QED  BY <1>1, <1>2, <1>3, <1>4, <2>1, <2>3 DEF StartHoldsItsLocks
  <1>7. QED  BY <1>5, <1>6 DEF LedgerInv

LEMMA StepStartDecides ==
  ASSUME LedgerInv, NEW x \in starting, StartDecides(x)
  PROVE  LedgerInv'
  <1> DEFINE fits == \A p \in x.plan :
                        x.actual[p] + UnknownUse(p) + ActiveUse(p) + RunReserveTokens(p)
                          <= lpolicy[p].limit
             y == [x EXCEPT !.decided = TRUE]
  <1>1. /\ starting' = IF fits THEN (starting \ {x}) \cup {y} ELSE starting \ {x}
        /\ UNCHANGED <<lpolicy, lagent, lrun, usage, resv, pedits, months>>
    BY DEF StartDecides
  <1>2. starting = {x}
    BY DEF LedgerInv, StartHoldsItsLocks
  <1>3. /\ \A a : PlanOf(a)' = PlanOf(a)
        /\ \A z : Fits(z)' <=> Fits(z)
    BY <1>1 DEF PlanOf, Fits, ActiveUse, Reserving, RunReserveTokens
  <1>4. x.plan \subseteq LPolicies
    BY DEF LedgerInv, StartHoldsItsLocks, Start
  <1>5. ASSUME fits PROVE Fits(y)
    <2>1. y.plan = x.plan
      BY DEF LedgerInv, StartHoldsItsLocks
    <2>2. ASSUME NEW p \in x.plan
          PROVE  ActiveUse(p) + RunReserveTokens(p) <= lpolicy[p].limit
      <3>1. x.actual[p] \in Nat
        BY DEF LedgerInv, StartHoldsItsLocks
      <3>2. /\ UnknownUse(p) \in Nat /\ ActiveUse(p) \in Nat
            /\ RunReserveTokens(p) \in 0 .. RunReserve /\ lpolicy[p].limit \in Nat
        BY <1>4, UseIsNat DEF LedgerInv
      <3>3. x.actual[p] + UnknownUse(p) + ActiveUse(p) + RunReserveTokens(p) <= lpolicy[p].limit
        BY <1>5
      <3>4. RunReserveTokens(p) \in Nat
        BY <3>2, LedgerConstants
      <3>5. \A i, j, k, l, m \in Nat : i + j + k + l <= m => k + l <= m
        OBVIOUS
      <3>6. QED  BY <3>1, <3>2, <3>3, <3>4, <3>5
    <2>3. QED
      <3> HIDE DEF y
      <3>1. QED  BY <2>1, <2>2 DEF Fits
  <1>6. /\ y.run = x.run /\ y.agent = x.agent /\ y.plan = x.plan /\ y.actual = x.actual
        /\ y.decided = TRUE
        /\ y \in Start
    <2>1. x \in Start
      BY DEF LedgerInv, StartHoldsItsLocks
    <2>2. QED  BY <2>1 DEF Start
  <1>7. LedgerTypeOK' /\ RowsAgree' /\ SettledWithItsRun' /\ DeletedAgentHasNoRun'
    <2> HIDE DEF fits, y
    <2>1. \A z \in starting' : z \in starting \/ z = y
      BY <1>1
    <2>2. \A z \in starting' : z.run \in LRuns /\ z.agent \in LAgents
      BY <1>6, <2>1 DEF LedgerInv, StartHoldsItsLocks, Start
    <2>3. QED
      BY <1>1, <2>2 DEF LedgerInv, LedgerTypeOK, RowsAgree, SettledWithItsRun, DeletedAgentHasNoRun
  <1>8. StartHoldsItsLocks'
    <2> HIDE DEF fits, y
    <2>1. CASE fits
      <3>1. starting' = {y}
        BY <1>1, <1>2, <2>1
      <3>2. Fits(y)
        BY <1>5, <2>1
      <3>3. QED  BY <1>1, <1>3, <1>6, <3>1, <3>2 DEF LedgerInv, StartHoldsItsLocks
    <2>2. CASE ~ fits
      <3>1. starting' = {}
        BY <1>1, <1>2, <2>2
      <3>2. QED  BY <3>1 DEF StartHoldsItsLocks
    <2>3. QED  BY <2>1, <2>2
  <1>9. QED  BY <1>7, <1>8 DEF LedgerInv

\* What the commit of a start writes.
LEMMA CommittedRows ==
  ASSUME LedgerInv, NEW x \in starting, StartCommits(x)
  PROVE  /\ starting' = {}
         /\ x.run \in LRuns /\ x.agent \in LAgents /\ lagent[x.agent]
         /\ x.plan \subseteq LPolicies
         /\ lrun[x.run].state = "none" /\ usage[x.run].state = "none"
         /\ lrun' \in [LRuns -> LRun] /\ usage' \in [LRuns -> Usage]
         /\ resv' \in [LRuns -> [LPolicies -> Resv]]
         /\ lrun'[x.run].state = "queued" /\ lrun'[x.run].agent = x.agent
         /\ lrun'[x.run].gate = FALSE
         /\ usage'[x.run].state = "pending"
         /\ \A p \in LPolicies : resv'[x.run][p] =
               IF p \in x.plan THEN [state |-> "active", reserved |-> RunReserveTokens(p),
                                     accounted |-> 0]
               ELSE NoResv
         /\ \A r \in LRuns : r # x.run => /\ lrun'[r] = lrun[r]
                                          /\ usage'[r] = usage[r] /\ resv'[r] = resv[r]
         /\ UNCHANGED <<lpolicy, lagent, pedits, months>>
  <1>1. /\ x.run \in LRuns /\ x.agent \in LAgents /\ lagent[x.agent] /\ lrun[x.run].state = "none"
        /\ x.plan = PlanOf(x.agent) /\ starting = {x}
    BY DEF LedgerInv, StartHoldsItsLocks, Start
  <1>2. starting' = {}
    BY <1>1 DEF StartCommits
  <1>3. x.plan \subseteq LPolicies
    BY <1>1 DEF PlanOf, LPolicies
  <1>4. usage[x.run].state = "none"
    BY <1>1 DEF LedgerInv, RowsAgree
  <1> DEFINE row == [NoLRun EXCEPT !.state = "queued", !.agent = x.agent]
             u == [NoUsage EXCEPT !.state = "pending", !.month = TRUE]
             v == [p \in LPolicies |-> IF p \in x.plan
                                      THEN [NoResv EXCEPT !.state = "active",
                                                          !.reserved = RunReserveTokens(p)]
                                      ELSE NoResv]
  <1>5. /\ lrun' = [lrun EXCEPT ![x.run] = row]
        /\ usage' = [usage EXCEPT ![x.run] = u]
        /\ resv' = [resv EXCEPT ![x.run] = v]
        /\ UNCHANGED <<lpolicy, lagent, pedits, months>>
    BY DEF StartCommits
  <1>6. row \in LRun /\ row.state = "queued" /\ row.agent = x.agent /\ row.gate = FALSE
    BY <1>1, EmptyRows DEF LRun, LActive, NoLRun
  <1>7. u \in Usage /\ u.state = "pending"
    BY EmptyRows DEF Usage
  <1>8. ASSUME NEW p \in LPolicies
        PROVE  /\ v[p] \in Resv
               /\ v[p] = IF p \in x.plan THEN [state |-> "active", reserved |-> RunReserveTokens(p),
                                               accounted |-> 0]
                         ELSE NoResv
    <2>1. RunReserveTokens(p) \in 0 .. RunReserve
      BY UseIsNat DEF LedgerInv
    <2>2. 0 \in 0 .. RunReserve
      BY LedgerConstants
    <2> DEFINE n == RunReserveTokens(p)
    <2>3. v[p] = IF p \in x.plan THEN [NoResv EXCEPT !.state = "active", !.reserved = n]
                 ELSE NoResv
      OBVIOUS
    <2>4. QED
      <3> HIDE DEF n, v
      <3>1. n \in 0 .. RunReserve
        BY <2>1 DEF n
      <3>2. v[p] = IF p \in x.plan THEN [state |-> "active", reserved |-> n, accounted |-> 0]
                   ELSE NoResv
        BY <2>3 DEF NoResv
      <3>3. v[p] \in Resv
        BY <2>2, <3>1, <3>2 DEF NoResv, Resv
      <3>4. QED  BY <3>2, <3>3 DEF n
  <1>9. v \in [LPolicies -> Resv]
    <2>1. v = [p \in LPolicies |-> v[p]]
      OBVIOUS
    <2>2. QED
      <3> HIDE DEF v
      <3>1. QED  BY <1>8, <2>1
  <1>10. /\ lrun \in [LRuns -> LRun] /\ usage \in [LRuns -> Usage]
         /\ resv \in [LRuns -> [LPolicies -> Resv]]
    BY DEF LedgerInv, LedgerTypeOK
  <1>11. /\ lrun' \in [LRuns -> LRun] /\ usage' \in [LRuns -> Usage]
         /\ resv' \in [LRuns -> [LPolicies -> Resv]]
         /\ lrun'[x.run] = row /\ usage'[x.run] = u /\ resv'[x.run] = v
         /\ \A r \in LRuns : r # x.run => /\ lrun'[r] = lrun[r]
                                          /\ usage'[r] = usage[r] /\ resv'[r] = resv[r]
    <2> HIDE DEF row, u, v
    <2>1. QED  BY <1>1, <1>5, <1>6, <1>7, <1>9, <1>10
  <1>12. QED
    <2> HIDE DEF row, u, v
    <2>1. QED  BY <1>1, <1>2, <1>3, <1>4, <1>5, <1>6, <1>7, <1>8, <1>11

LEMMA StepStartCommits ==
  ASSUME LedgerInv, NEW x \in starting, StartCommits(x)
  PROVE  LedgerInv'
  <1>1. /\ starting' = {}
        /\ x.run \in LRuns /\ x.agent \in LAgents /\ lagent[x.agent]
        /\ lrun' \in [LRuns -> LRun] /\ usage' \in [LRuns -> Usage]
        /\ resv' \in [LRuns -> [LPolicies -> Resv]]
        /\ lrun'[x.run].state = "queued" /\ lrun'[x.run].agent = x.agent
        /\ lrun'[x.run].gate = FALSE
        /\ usage'[x.run].state = "pending"
        /\ \A r \in LRuns : r # x.run => /\ lrun'[r] = lrun[r]
                                         /\ usage'[r] = usage[r] /\ resv'[r] = resv[r]
        /\ UNCHANGED <<lpolicy, lagent, pedits, months>>
    BY CommittedRows
  <1>2. LedgerTypeOK' /\ StartHoldsItsLocks'
    BY <1>1 DEF LedgerInv, LedgerTypeOK, StartHoldsItsLocks
  <1>3. RowsAgree'
    BY <1>1 DEF LedgerInv, RowsAgree
  <1>4. SettledWithItsRun'
    BY <1>1 DEF LedgerInv, SettledWithItsRun, LActive
  <1>5. DeletedAgentHasNoRun'
    BY <1>1 DEF LedgerInv, DeletedAgentHasNoRun
  <1>6. QED  BY <1>2, <1>3, <1>4, <1>5 DEF LedgerInv
-----------------------------------------------------------------------------
(* The ends of a run, policies and months.                                 *)

\* The runs of a set that are open end together, in the transaction that settles them.
LEMMA RunsEnd ==
  ASSUME LedgerInv, NEW rs \in SUBSET LRuns, \A r \in rs : lrun[r].state \in LActive,
         NEW st \in LTerminal,
         lrun' = [r \in LRuns |-> IF r \in rs THEN [lrun[r] EXCEPT !.state = st] ELSE lrun[r]],
         SettleRuns(rs), UNCHANGED <<lpolicy, starting, pedits, months>>,
         lagent' \in [LAgents -> BOOLEAN],
         \A x \in starting : lagent'[x.agent],
         \A a \in LAgents : ~ lagent'[a] =>
            ~ lagent[a] \/ \A r \in LRuns : lrun[r].agent = a /\ lrun[r].state \in LActive => r \in rs
  PROVE  LedgerInv'
  <1>1. /\ usage' \in [LRuns -> Usage]
        /\ resv' \in [LRuns -> [LPolicies -> Resv]]
        /\ \A r \in LRuns :
              IF r \in rs /\ usage[r].state = "pending"
              THEN /\ usage'[r].state \in {"settled", "released", "usage_unknown"}
                   /\ \A p \in LPolicies : resv'[r][p].state # "active"
              ELSE usage'[r] = usage[r] /\ resv'[r] = resv[r]
        /\ \A r \in LRuns, p \in LPolicies :
              /\ resv'[r][p].reserved = resv[r][p].reserved
              /\ resv'[r][p].state = "active" => resv[r][p].state = "active"
    BY SettlementShape DEF LedgerInv
  <1>2. \A r \in LRuns :
           /\ lrun'[r] \in LRun
           /\ lrun'[r].agent = lrun[r].agent /\ lrun'[r].gate = lrun[r].gate
           /\ r \in rs => lrun'[r].state = st
           /\ r \notin rs => lrun'[r] = lrun[r]
    BY DEF LedgerInv, LedgerTypeOK, LRun
  <1>3. LedgerTypeOK'
    <2>1. lrun' \in [LRuns -> LRun]
      BY <1>2
    <2>2. QED  BY <1>1, <2>1 DEF LedgerInv, LedgerTypeOK
  <1>4. StartHoldsItsLocks'
    <2>1. \A a : PlanOf(a)' = PlanOf(a)
      BY DEF PlanOf
    <2>2. ASSUME NEW x \in starting, x.decided, NEW p \in x.plan
          PROVE  ActiveUse(p)' + RunReserveTokens(p)' <= lpolicy'[p].limit
      <3>1. p \in LPolicies
        BY DEF LedgerInv, StartHoldsItsLocks, Start
      <3>2. ActiveUse(p)' <= ActiveUse(p)
        BY <1>1, <1>3, <3>1, UseShrinks DEF LedgerInv
      <3>3. RunReserveTokens(p)' = RunReserveTokens(p) /\ lpolicy'[p].limit = lpolicy[p].limit
        BY DEF RunReserveTokens
      <3>4. ActiveUse(p) + RunReserveTokens(p) <= lpolicy[p].limit
        BY <2>2 DEF LedgerInv, StartHoldsItsLocks, Fits
      <3>5. /\ ActiveUse(p) \in Nat /\ lpolicy[p].limit \in Nat
            /\ RunReserveTokens(p) \in 0 .. RunReserve
        BY <3>1, UseIsNat DEF LedgerInv
      <3>6. ActiveUse(p)' \in Nat
        <4>1. \A S \in SUBSET LRuns : IsFiniteSet(S)
          BY LedgerConstants, FS_Subset
        <4>2. Reserving(p)' \in SUBSET LRuns
          BY DEF Reserving
        <4>3. [r \in LRuns |-> resv'[r][p].reserved] \in [LRuns -> Nat]
          BY <1>1, <3>1, LedgerConstants DEF Resv
        <4>4. SumFunctionOnSet([r \in LRuns |-> resv'[r][p].reserved], Reserving(p)') \in Nat
          BY <4>1, <4>2, <4>3, SumIsNat
        <4>5. QED  BY <4>4 DEF ActiveUse
      <3>7. QED  BY <3>2, <3>3, <3>4, <3>5, <3>6, LedgerConstants
    <2>3. \A x \in starting : x.decided => Fits(x)'
      BY <2>2 DEF Fits
    <2>4. \A x \in starting : lrun'[x.run].state = "none"
      BY <1>2 DEF LedgerInv, StartHoldsItsLocks, Start, LActive
    <2>5. QED  BY <2>1, <2>3, <2>4 DEF LedgerInv, StartHoldsItsLocks
  <1>5. RowsAgree'
    <2>1. ASSUME NEW r \in LRuns
          PROVE  /\ usage'[r].state # "none" <=> (lrun'[r].state # "none" /\ ~ lrun'[r].gate)
                 /\ lrun'[r].state # "none" => lrun'[r].agent \in LAgents
      <3>1. /\ usage[r].state # "none" <=> (lrun[r].state # "none" /\ ~ lrun[r].gate)
            /\ lrun[r].state # "none" => lrun[r].agent \in LAgents
        BY DEF LedgerInv, RowsAgree
      <3>2. usage'[r].state # "none" <=> usage[r].state # "none"
        BY <1>1
      <3>3. lrun'[r].state # "none" <=> lrun[r].state # "none"
        BY <1>2 DEF LActive, LTerminal
      <3>4. lrun'[r].gate = lrun[r].gate /\ lrun'[r].agent = lrun[r].agent
        BY <1>2
      <3>5. QED  BY Zenon, <3>1, <3>2, <3>3, <3>4
    <2>2. QED  BY <2>1 DEF RowsAgree
  <1>6. SettledWithItsRun'
    BY <1>1, <1>2 DEF LedgerInv, SettledWithItsRun, LActive, LTerminal
  <1>7. DeletedAgentHasNoRun'
    BY <1>2 DEF LedgerInv, DeletedAgentHasNoRun, LActive, LTerminal
  <1>8. QED  BY <1>3, <1>4, <1>5, <1>6, <1>7 DEF LedgerInv

LEMMA StepFinishRun ==
  ASSUME LedgerInv, NEW r \in LRuns, NEW st \in {"completed", "failed"}, FinishRun(r, st)
  PROVE  LedgerInv'
  <1>1. /\ \A q \in {r} : lrun[q].state \in LActive
        /\ SettleRuns({r})
        /\ UNCHANGED <<lpolicy, lagent, starting, pedits, months>>
    BY DEF FinishRun
  <1>2. lrun' = [q \in LRuns |-> IF q \in {r} THEN [lrun[q] EXCEPT !.state = st] ELSE lrun[q]]
    BY DEF FinishRun, LedgerInv, LedgerTypeOK
  <1>3. st \in LTerminal /\ {r} \in SUBSET LRuns
    BY DEF LTerminal
  <1>4. /\ lagent' \in [LAgents -> BOOLEAN]
        /\ \A x \in starting : lagent'[x.agent]
        /\ \A a \in LAgents : ~ lagent'[a] => ~ lagent[a]
    BY <1>1 DEF LedgerInv, LedgerTypeOK, StartHoldsItsLocks
  <1>5. QED  BY <1>1, <1>2, <1>3, <1>4, RunsEnd

LEMMA StepAgentLeaves ==
  ASSUME LedgerInv, NEW a \in LAgents, RemoveAgentFromChannel(a) \/ DeleteAgent(a)
  PROVE  LedgerInv'
  <1>1. /\ lrun' = [r \in LRuns |-> IF r \in ActiveRunsOf(a)
                                    THEN [lrun[r] EXCEPT !.state = "cancelled"] ELSE lrun[r]]
        /\ SettleRuns(ActiveRunsOf(a))
        /\ UNCHANGED <<lpolicy, starting, pedits, months>>
    BY DEF RemoveAgentFromChannel, DeleteAgent, CancelRuns
  <1>2. /\ ActiveRunsOf(a) \in SUBSET LRuns /\ "cancelled" \in LTerminal
        /\ \A r \in ActiveRunsOf(a) : lrun[r].state \in LActive
    BY DEF ActiveRunsOf, LTerminal
  <1>3. /\ lagent' \in [LAgents -> BOOLEAN]
        /\ \A x \in starting : lagent'[x.agent]
        /\ \A b \in LAgents : ~ lagent'[b] => ~ lagent[b] \/ b = a
    <2>1. CASE RemoveAgentFromChannel(a)
      BY <2>1 DEF RemoveAgentFromChannel, LedgerInv, LedgerTypeOK, StartHoldsItsLocks
    <2>2. CASE DeleteAgent(a)
      BY <2>2 DEF DeleteAgent, AgentRowFree, LedgerInv, LedgerTypeOK, StartHoldsItsLocks
    <2>3. QED  BY <2>1, <2>2
  <1>4. \A b \in LAgents : ~ lagent'[b] =>
           ~ lagent[b] \/ \A r \in LRuns : lrun[r].agent = b /\ lrun[r].state \in LActive
                                             => r \in ActiveRunsOf(a)
    BY <1>3 DEF ActiveRunsOf
  <1>5. QED  BY <1>1, <1>2, <1>3, <1>4, RunsEnd

LEMMA StepSaveBudget ==
  ASSUME LedgerInv, NEW p \in LPolicies, NEW on \in BOOLEAN, NEW n \in LimitChoices,
         SaveBudget(p, on, n)
  PROVE  LedgerInv'
  <1>1. starting' = {} /\ UNCHANGED <<lagent, lrun, usage, resv, months>>
    BY DEF SaveBudget, OwnerLockFree
  <1>2. pedits' \in 0 .. MaxPolicyEdits
    BY LedgerConstants DEF SaveBudget, LedgerInv, LedgerTypeOK
  <1>3. lpolicy' \in [LPolicies -> [enabled : BOOLEAN, limit : LimitChoices \cup {0}]]
    <2> DEFINE row == [enabled |-> on, limit |-> n]
    <2>1. row \in [enabled : BOOLEAN, limit : LimitChoices \cup {0}]
      OBVIOUS
    <2>2. lpolicy' = [lpolicy EXCEPT ![p] = row]
      BY DEF SaveBudget
    <2>3. lpolicy \in [LPolicies -> [enabled : BOOLEAN, limit : LimitChoices \cup {0}]]
      BY DEF LedgerInv, LedgerTypeOK
    <2>4. QED
      <3> HIDE DEF row
      <3>1. QED  BY Zenon, <2>1, <2>2, <2>3
  <1>4. QED
    BY <1>1, <1>2, <1>3 DEF LedgerInv, LedgerTypeOK, StartHoldsItsLocks, RowsAgree,
       SettledWithItsRun, DeletedAgentHasNoRun

LEMMA StepNewMonth ==
  ASSUME LedgerInv, NewMonth
  PROVE  LedgerInv'
  <1>1. UNCHANGED <<lpolicy, lagent, lrun, resv, starting, pedits>>
    BY DEF NewMonth
  <1>2. usage' \in [LRuns -> Usage] /\ \A r \in LRuns : usage'[r].state = usage[r].state
    BY DEF NewMonth, LedgerInv, LedgerTypeOK, Usage
  <1>3. months' \in 0 .. MaxMonths
    BY LedgerConstants DEF NewMonth, LedgerInv, LedgerTypeOK
  <1>4. StartHoldsItsLocks'
    <2>1. /\ \A a : PlanOf(a)' = PlanOf(a)
          /\ \A x : Fits(x)' <=> Fits(x)
      BY <1>1 DEF PlanOf, Fits, ActiveUse, Reserving, RunReserveTokens
    <2>2. QED  BY <1>1, <2>1 DEF LedgerInv, StartHoldsItsLocks
  <1>5. QED
    BY <1>1, <1>2, <1>3, <1>4 DEF LedgerInv, LedgerTypeOK, RowsAgree, SettledWithItsRun,
       DeletedAgentHasNoRun

LEMMA LedgerInvStutter ==
  ASSUME LedgerInv, UNCHANGED ledgerVars
  PROVE  LedgerInv'
  <1>1. StartHoldsItsLocks'
    <2>1. /\ \A a : PlanOf(a)' = PlanOf(a)
          /\ \A x : Fits(x)' <=> Fits(x)
      BY DEF ledgerVars, PlanOf, Fits, ActiveUse, Reserving, RunReserveTokens
    <2>2. QED  BY <2>1 DEF ledgerVars, LedgerInv, StartHoldsItsLocks
  <1>2. QED
    BY <1>1 DEF ledgerVars, LedgerInv, LedgerTypeOK, RowsAgree, SettledWithItsRun,
       DeletedAgentHasNoRun

LEMMA LedgerInvStep == LedgerInv /\ [LedgerNext]_ledgerVars => LedgerInv'
  <1> SUFFICES ASSUME LedgerInv, [LedgerNext]_ledgerVars PROVE LedgerInv'
    OBVIOUS
  <1>1. ASSUME NEW r \in LRuns, NEW a \in LAgents, StartReads(r, a) \/ StartGate(r, a)
        PROVE  LedgerInv'
    BY <1>1, StepStartReads, StepStartGate
  <1>2. ASSUME NEW x \in starting, StartDecides(x) \/ StartCommits(x)
        PROVE  LedgerInv'
    BY <1>2, StepStartDecides, StepStartCommits
  <1>3. ASSUME NEW r \in LRuns, MarkBackendStarted(r)
        PROVE  LedgerInv'
    BY <1>3, StepMarkBackendStarted
  <1>4. ASSUME NEW r \in LRuns, NEW n \in 1 .. MaxTokens, UpdateStatus(r, n)
        PROVE  LedgerInv'
    BY <1>4, StepUpdateStatus
  <1>5. ASSUME NEW r \in LRuns, NEW st \in {"completed", "failed"}, FinishRun(r, st)
        PROVE  LedgerInv'
    BY <1>5, StepFinishRun
  <1>6. ASSUME NEW a \in LAgents, RemoveAgentFromChannel(a) \/ DeleteAgent(a)
        PROVE  LedgerInv'
    BY <1>6, StepAgentLeaves
  <1>7. ASSUME NEW p \in LPolicies, NEW on \in BOOLEAN, NEW n \in LimitChoices,
               SaveBudget(p, on, n)
        PROVE  LedgerInv'
    BY <1>7, StepSaveBudget
  <1>8. CASE NewMonth
    BY <1>8, StepNewMonth
  <1>9. CASE UNCHANGED ledgerVars
    BY <1>9, LedgerInvStutter
  <1>10. QED
    BY <1>1, <1>2, <1>3, <1>4, <1>5, <1>6, <1>7, <1>8, <1>9 DEF LedgerNext
-----------------------------------------------------------------------------
(* What follows.                                                           *)

\* The invariant holds in every reachable state.
THEOREM LedgerIsSound == LedgerSpec => []LedgerInv
  <1>1. QED  BY LedgerInvInit, LedgerInvStep, PTL DEF LedgerSpec

\* Usage and reservations are settled in the transaction that ends their run, whichever path
\* (finish, removal, deletion) comes first.
THEOREM UsageEndsWithRun == LedgerSpec => []SettledWithItsRun
  <1>1. LedgerInv => SettledWithItsRun
    BY DEF LedgerInv
  <1>2. QED  BY <1>1, LedgerIsSound, PTL

\* No start that was on its way outlives the deletion of its agent.
THEOREM DeletionIsFinal == LedgerSpec => []DeletedAgentHasNoRun
  <1>1. LedgerInv => DeletedAgentHasNoRun
    BY DEF LedgerInv
  <1>2. QED  BY <1>1, LedgerIsSound, PTL

\* A run appears with the commit of its start, or as a gate; no other step makes one.
LEMMA RunAppears ==
  ASSUME LedgerInv, LedgerNext, NEW r \in LRuns, lrun[r].state = "none", lrun'[r].state # "none",
         ~ lrun'[r].gate
  PROVE  \E x \in starting : x.run = r /\ StartCommits(x)
  <1>1. lrun \in [LRuns -> LRun]
    BY DEF LedgerInv, LedgerTypeOK
  <1>2. ASSUME NEW q \in LRuns, NEW a \in LAgents, StartReads(q, a)
        PROVE  FALSE
    BY <1>2 DEF StartReads
  <1>3. ASSUME NEW q \in LRuns, NEW a \in LAgents, StartGate(q, a)
        PROVE  FALSE
    <2> DEFINE row == [NoLRun EXCEPT !.state = "queued", !.agent = a, !.gate = TRUE]
    <2>1. row.gate
      BY EmptyRows DEF LRun
    <2>2. lrun' = [lrun EXCEPT ![q] = row]
      BY <1>3 DEF StartGate
    <2>3. QED
      <3> HIDE DEF row
      <3>1. QED  BY <1>1, <2>1, <2>2
  <1>4. ASSUME NEW x \in starting, StartDecides(x)
        PROVE  FALSE
    BY <1>4 DEF StartDecides
  <1>5. ASSUME NEW x \in starting, StartCommits(x)
        PROVE  x.run = r
    BY <1>5, CommittedRows
  <1>6. ASSUME NEW q \in LRuns, MarkBackendStarted(q)
        PROVE  FALSE
    BY <1>1, <1>6 DEF MarkBackendStarted, StillOpen, LActive
  <1>7. ASSUME NEW q \in LRuns, NEW n \in 1 .. MaxTokens, UpdateStatus(q, n)
        PROVE  FALSE
    BY <1>1, <1>7 DEF UpdateStatus, StillOpen, LActive
  <1>8. ASSUME NEW q \in LRuns, NEW st \in {"completed", "failed"}, FinishRun(q, st)
        PROVE  FALSE
    BY <1>1, <1>8 DEF FinishRun, LActive
  <1>9. ASSUME NEW a \in LAgents, RemoveAgentFromChannel(a) \/ DeleteAgent(a)
        PROVE  FALSE
    BY <1>1, <1>9 DEF RemoveAgentFromChannel, DeleteAgent, CancelRuns, ActiveRunsOf, LActive
  <1>10. ASSUME NEW p \in LPolicies, NEW on \in BOOLEAN, NEW n \in LimitChoices,
                SaveBudget(p, on, n)
         PROVE  FALSE
    BY <1>10 DEF SaveBudget
  <1>11. CASE NewMonth
    BY <1>11 DEF NewMonth
  <1>12. QED
    BY <1>2, <1>3, <1>4, <1>5, <1>6, <1>7, <1>8, <1>9, <1>10, <1>11 DEF LedgerNext

\* The reservations that a new run joins fit the limit of every policy that admitted it.
LEMMA StartFits ==
  ASSUME LedgerInv, LedgerInv', LedgerNext, NEW r \in LRuns, lrun[r].state = "none",
         lrun'[r].state # "none", ~ lrun'[r].gate, NEW p \in LPolicies,
         resv'[r][p].state = "active"
  PROVE  ActiveUse(p)' <= lpolicy'[p].limit
  <1>1. PICK x \in starting : x.run = r /\ StartCommits(x)
    BY RunAppears
  <1>2. /\ resv'[r][p] = IF p \in x.plan THEN [state |-> "active", reserved |-> RunReserveTokens(p),
                                              accounted |-> 0]
                         ELSE NoResv
        /\ usage[r].state = "none"
        /\ \A q \in LRuns : q # r => resv'[q] = resv[q]
        /\ lpolicy' = lpolicy
    BY <1>1, CommittedRows
  <1>3. p \in x.plan /\ resv'[r][p].reserved = RunReserveTokens(p)
    BY <1>2 DEF NoResv
  <1>4. resv[r][p].state # "active"
    BY <1>2 DEF LedgerInv, SettledWithItsRun
  <1>5. ActiveUse(p)' = RunReserveTokens(p) + ActiveUse(p)
    <2>1. ActiveUse(p)' = resv'[r][p].reserved + ActiveUse(p)
      BY <1>2, <1>4, UseJoined DEF LedgerInv
    <2>2. QED  BY <1>3, <2>1
  <1>6. ActiveUse(p) + RunReserveTokens(p) <= lpolicy[p].limit
    BY <1>1, <1>3 DEF LedgerInv, StartHoldsItsLocks, Fits, StartCommits
  <1>7. ActiveUse(p) \in Nat /\ RunReserveTokens(p) \in 0 .. RunReserve
    BY UseIsNat DEF LedgerInv
  <1>8. RunReserveTokens(p) + ActiveUse(p) = ActiveUse(p) + RunReserveTokens(p)
    <2>1. RunReserveTokens(p) \in Nat
      BY <1>7, LedgerConstants
    <2>2. \A i, j \in Nat : i + j = j + i
      OBVIOUS
    <2>3. QED  BY <1>7, <2>1, <2>2
  <1>9. QED  BY <1>2, <1>5, <1>6, <1>8

\* Two people who start runs at the same time cannot together exceed a budget.
THEOREM ReservationsFitTheLimits == LedgerSpec => ReservationsFit
  <1> DEFINE fits == \A r \in LRuns :
          lrun[r].state = "none" /\ lrun'[r].state # "none" /\ ~ lrun'[r].gate =>
             \A p \in LPolicies : resv'[r][p].state = "active" =>
                ActiveUse(p)' <= lpolicy'[p].limit
  <1>1. LedgerInv /\ LedgerInv' /\ [LedgerNext]_ledgerVars => [fits]_ledgerVars
    BY StartFits
  <1>2. QED
    <2> HIDE DEF fits
    <2>1. LedgerSpec => [][fits]_ledgerVars
      BY <1>1, LedgerIsSound, PTL DEF LedgerSpec
    <2>2. QED  BY <2>1 DEF fits, ReservationsFit

\* All that the ledger promises.
THEOREM LedgerKeepsItsPromise == LedgerSpec => LedgerPromise
  <1>1. LedgerInv => LedgerTypeOK /\ SettledWithItsRun /\ DeletedAgentHasNoRun
    BY DEF LedgerInv
  <1>2. QED  BY <1>1, LedgerIsSound, ReservationsFitTheLimits, PTL DEF LedgerPromise
-----------------------------------------------------------------------------
(* The ledger implements the account.                                      *)

PhaseOf(row) == IF row.state = "none" THEN "absent" ELSE IF row.state \in LActive THEN "open" ELSE "closed"

\* A step that changes no run's phase and no cost is a stutter of the account.
LEMMA AccountStutter ==
  ASSUME \A r \in LRuns : PhaseOf(lrun'[r]) = PhaseOf(lrun[r]) /\ Cost(r)' = Cost(r)
  PROVE  UNCHANGED Account!accountVars
  BY DEF Account!accountVars, PhaseOf

\* The rows of one run appear: the account opens it.
LEMMA AccountOpens ==
  ASSUME NEW q \in LRuns, PhaseOf(lrun[q]) = "absent", PhaseOf(lrun'[q]) = "open",
         \A r \in LRuns : r # q => lrun'[r] = lrun[r],
         \A r \in LRuns : Cost(r)' = Cost(r)
  PROVE  Account!AccountNext
  <1>1. Account!Open(q)
    BY DEF Account!Open, PhaseOf
  <1>2. QED  BY <1>1 DEF Account!AccountNext

\* Open runs end: the account closes them.
LEMMA AccountCloses ==
  ASSUME LedgerInv, NEW rs \in SUBSET LRuns, rs # {}, NEW st \in LTerminal,
         \A r \in rs : lrun[r].state \in LActive,
         lrun' = [r \in LRuns |-> IF r \in rs THEN [lrun[r] EXCEPT !.state = st] ELSE lrun[r]],
         SettleRuns(rs)
  PROVE  Account!AccountNext
  <1>1. \A r \in LRuns : r \notin rs => lrun'[r] = lrun[r] /\ usage'[r] = usage[r]
    BY SettlementShape DEF LedgerInv
  <1>2. \A r \in rs : lrun'[r].state = st
    BY DEF LedgerInv, LedgerTypeOK, LRun
  <1>3. \A r \in LRuns \ rs : Cost(r)' = Cost(r)
    BY <1>1 DEF Cost
  <1>4. Account!Close(rs)
    BY <1>1, <1>2, <1>3 DEF Account!Close, LActive, LTerminal
  <1>5. QED  BY <1>4 DEF Account!AccountNext

LEMMA AccountStep ==
  ASSUME LedgerInv, LedgerNext
  PROVE  Account!AccountNext \/ UNCHANGED Account!accountVars
  <1>1. lrun \in [LRuns -> LRun] /\ usage \in [LRuns -> Usage]
    BY DEF LedgerInv, LedgerTypeOK
  <1>2. ASSUME UNCHANGED <<lrun, usage>>
        PROVE  UNCHANGED Account!accountVars
    BY <1>2, AccountStutter DEF Cost
  <1>3. ASSUME NEW r \in LRuns, NEW a \in LAgents, StartReads(r, a)
        PROVE  UNCHANGED Account!accountVars
    BY <1>2, <1>3 DEF StartReads
  <1>4. ASSUME NEW r \in LRuns, NEW a \in LAgents, StartGate(r, a)
        PROVE  Account!AccountNext
    <2> DEFINE row == [NoLRun EXCEPT !.state = "queued", !.agent = a, !.gate = TRUE]
    <2>1. row.state = "queued"
      BY EmptyRows DEF LRun
    <2>2. lrun[r].state = "none" /\ lrun' = [lrun EXCEPT ![r] = row] /\ usage' = usage
      BY <1>4 DEF StartGate, Fresh
    <2>3. /\ PhaseOf(lrun[r]) = "absent" /\ PhaseOf(lrun'[r]) = "open"
          /\ \A q \in LRuns : q # r => lrun'[q] = lrun[q]
      <3> HIDE DEF row
      <3>1. QED  BY <1>1, <2>1, <2>2 DEF PhaseOf, LActive
    <2>4. \A q \in LRuns : Cost(q)' = Cost(q)
      BY <2>2 DEF Cost
    <2>5. QED  BY <2>3, <2>4, AccountOpens
  <1>5. ASSUME NEW x \in starting, StartDecides(x)
        PROVE  UNCHANGED Account!accountVars
    BY <1>2, <1>5 DEF StartDecides
  <1>6. ASSUME NEW x \in starting, StartCommits(x)
        PROVE  Account!AccountNext
    <2>1. /\ x.run \in LRuns
          /\ lrun[x.run].state = "none" /\ usage[x.run].state = "none"
          /\ lrun'[x.run].state = "queued" /\ usage'[x.run].state = "pending"
          /\ \A q \in LRuns : q # x.run => lrun'[q] = lrun[q] /\ usage'[q] = usage[q]
      BY <1>6, CommittedRows
    <2>2. PhaseOf(lrun[x.run]) = "absent" /\ PhaseOf(lrun'[x.run]) = "open"
      BY <2>1 DEF PhaseOf, LActive
    <2>3. \A q \in LRuns : Cost(q)' = Cost(q)
      BY <2>1 DEF Cost
    <2>4. QED  BY <2>1, <2>2, <2>3, AccountOpens
  <1>7. ASSUME NEW r \in LRuns, MarkBackendStarted(r)
        PROVE  UNCHANGED Account!accountVars
    <2>1. \A q \in LRuns : PhaseOf(lrun'[q]) = PhaseOf(lrun[q])
      BY <1>1, <1>7 DEF MarkBackendStarted, StillOpen, PhaseOf, LActive, LRun
    <2>2. \A q \in LRuns : Cost(q)' = Cost(q)
      BY <1>7 DEF MarkBackendStarted, Cost
    <2>3. QED  BY <2>1, <2>2, AccountStutter
  <1>8. ASSUME NEW r \in LRuns, NEW n \in 1 .. MaxTokens, UpdateStatus(r, n)
        PROVE  UNCHANGED Account!accountVars
    <2>1. \A q \in LRuns : PhaseOf(lrun'[q]) = PhaseOf(lrun[q])
      BY <1>1, <1>8 DEF UpdateStatus, StillOpen, PhaseOf, LActive, LRun
    <2>2. \A q \in LRuns : Cost(q)' = Cost(q)
      BY <1>8 DEF UpdateStatus, Cost
    <2>3. QED  BY <2>1, <2>2, AccountStutter
  <1>9. ASSUME NEW r \in LRuns, NEW st \in {"completed", "failed"}, FinishRun(r, st)
        PROVE  Account!AccountNext
    <2>1. /\ \A q \in {r} : lrun[q].state \in LActive
          /\ SettleRuns({r})
          /\ lrun' = [q \in LRuns |-> IF q \in {r} THEN [lrun[q] EXCEPT !.state = st] ELSE lrun[q]]
      BY <1>1, <1>9 DEF FinishRun
    <2>2. st \in LTerminal /\ {r} \in SUBSET LRuns /\ {r} # {}
      BY DEF LTerminal
    <2>3. QED  BY <2>1, <2>2, AccountCloses
  <1>10. ASSUME NEW a \in LAgents, RemoveAgentFromChannel(a) \/ DeleteAgent(a)
         PROVE  Account!AccountNext \/ UNCHANGED Account!accountVars
    <2>1. /\ lrun' = [r \in LRuns |-> IF r \in ActiveRunsOf(a)
                                      THEN [lrun[r] EXCEPT !.state = "cancelled"] ELSE lrun[r]]
          /\ SettleRuns(ActiveRunsOf(a))
      BY <1>10 DEF RemoveAgentFromChannel, DeleteAgent, CancelRuns
    <2>2. /\ ActiveRunsOf(a) \in SUBSET LRuns /\ "cancelled" \in LTerminal
          /\ \A r \in ActiveRunsOf(a) : lrun[r].state \in LActive
      BY DEF ActiveRunsOf, LTerminal
    <2>3. CASE ActiveRunsOf(a) # {}
      BY <2>1, <2>2, <2>3, AccountCloses
    <2>4. CASE ActiveRunsOf(a) = {}
      <3>1. \A r \in LRuns : lrun'[r] = lrun[r]
        BY <2>1, <2>4
      <3>2. \A r \in LRuns : usage'[r] = usage[r]
        BY <2>1, <2>4, SettlementShape DEF LedgerInv
      <3>3. QED  BY <3>1, <3>2, AccountStutter DEF Cost
    <2>5. QED  BY <2>3, <2>4
  <1>11. ASSUME NEW p \in LPolicies, NEW on \in BOOLEAN, NEW n \in LimitChoices,
                SaveBudget(p, on, n)
         PROVE  UNCHANGED Account!accountVars
    BY <1>2, <1>11 DEF SaveBudget
  <1>12. ASSUME NewMonth
         PROVE  UNCHANGED Account!accountVars
    <2>1. lrun' = lrun
      BY <1>12 DEF NewMonth
    <2>2. \A r \in LRuns : usage'[r].state = usage[r].state /\ usage'[r].actual = usage[r].actual
      BY <1>1, <1>12 DEF NewMonth, Usage
    <2>3. QED  BY <2>1, <2>2, AccountStutter DEF Cost
  <1>13. QED
    BY <1>3, <1>4, <1>5, <1>6, <1>7, <1>8, <1>9, <1>10, <1>11, <1>12 DEF LedgerNext

LEMMA AccountInitially == LedgerInit => Account!AccountInit
  BY DEF LedgerInit, Account!AccountInit, NoLRun, NoUsage, Cost

\* A run is opened once and closed once, and its cost is booked in the step that closes it and
\* stays as it is, through months and settlements of others.
THEOREM LedgerImplementsAccount == LedgerSpec => BookedOnClose
  <1>1. LedgerInv /\ [LedgerNext]_ledgerVars => [Account!AccountNext]_(Account!accountVars)
    <2>1. LedgerInv /\ LedgerNext => [Account!AccountNext]_(Account!accountVars)
      BY AccountStep
    <2>2. UNCHANGED ledgerVars => UNCHANGED Account!accountVars
      BY AccountStutter DEF ledgerVars, Cost
    <2>3. QED  BY <2>1, <2>2
  <1>2. QED
    BY <1>1, AccountInitially, LedgerIsSound, PTL
       DEF LedgerSpec, BookedOnClose, Account!AccountSpec

-----------------------------------------------------------------------------
(* Least and greatest members, and the order of recent activity.           *)

\* A set of naturals that is not empty has a least member.
LEMMA LeastNat ==
  ASSUME NEW S, S \subseteq Nat, S # {}
  PROVE  \E x \in S : \A y \in S : x <= y
<1> DEFINE R == {ss \in Nat \X Nat : ss[1] < ss[2]}
<1>1. IsWellFoundedOn(R, Nat)
  BY NatLessThanWellFounded DEF OpToRel
<1> HIDE DEF R
<1>2. \E x \in S : \A y \in S : ~(<<y, x>> \in R)
  BY <1>1, WFMin
<1>3. \A x, y \in Nat : ~(<<y, x>> \in R) => x <= y
  <2> TAKE x, y \in Nat
  <2>1. y < x => <<y, x>> \in R
    BY DEF R
  <2>2. QED  BY <2>1
<1>4. QED  BY <1>2, <1>3

\* Min returns it.
LEMMA LeastMember ==
  ASSUME NEW S, S \subseteq Nat, S # {}
  PROVE  Min(S) \in S
BY LeastNat DEF Min

\* Max returns a member of a set of naturals that is bounded and not empty.
LEMMA GreatestMember ==
  ASSUME NEW n \in Nat, NEW S, S \subseteq 1 .. n, S # {}
  PROVE  Max(S) \in S
<1> DEFINE Gap == {n - x : x \in S}
<1>1. Gap \subseteq Nat /\ Gap # {}
  <2>1. \A x \in S : x \in 1 .. n /\ n - x \in Nat
    OBVIOUS
  <2>2. QED  BY <2>1
<1> HIDE DEF Gap
<1>2. PICK g \in Gap : \A h \in Gap : g <= h
  BY <1>1, LeastNat
<1> USE DEF Gap
<1>3. PICK x \in S : g = n - x
  BY <1>2
<1>4. \A y \in S : y <= x
  <2> TAKE y \in S
  <2>1. n - y \in Gap  OBVIOUS
  <2>2. n - x <= n - y  BY <2>1, <1>2, <1>3
  <2>3. QED  BY <2>2
<1>5. QED  BY <1>4 DEF Max

\* Touching a session keeps every session once and adds the one that is touched.
LEMMA TouchMoves ==
  ASSUME NEW seq \in Seq(Sessions), IsInjective(seq), NEW s \in Sessions
  PROVE  /\ Touch(s, seq) \in Seq(Sessions)
         /\ IsInjective(Touch(s, seq))
         /\ Range(Touch(s, seq)) = Range(seq) \cup {s}
<1> DEFINE known == s \in Range(seq)
           p == IF known THEN CHOOSE i \in DOMAIN seq : seq[i] = s ELSE Len(seq) + 1
           n == IF known THEN Len(seq) ELSE Len(seq) + 1
           t == [i \in 1 .. n |-> IF i = 1 THEN s ELSE IF i <= p THEN seq[i - 1] ELSE seq[i]]
<1>1. Touch(s, seq) = t
  BY DEF Touch
<1>2. /\ Len(seq) \in Nat /\ DOMAIN seq = 1 .. Len(seq)
      /\ \A i \in 1 .. Len(seq) : seq[i] \in Sessions
  OBVIOUS
<1>3. known => p \in 1 .. Len(seq) /\ seq[p] = s
  BY <1>2 DEF Range
<1>4. ~ known => \A i \in 1 .. Len(seq) : seq[i] # s
  BY <1>2 DEF Range
<1>5. n \in Nat \ {0} /\ p \in 1 .. n /\ n >= Len(seq)
  BY <1>2, <1>3
<1>6. \A i, j \in 1 .. Len(seq) : seq[i] = seq[j] => i = j
  BY <1>2 DEF IsInjective
<1>7. /\ n = Len(seq) \/ (n = Len(seq) + 1 /\ p = Len(seq) + 1)
  OBVIOUS
<1>8. Len(seq) \in Nat /\ n \in Nat /\ p \in Nat /\ 1 <= p /\ p <= n /\ Len(seq) <= n
  BY <1>2, <1>5
<1>9. \A i \in 1 .. Len(seq) : i # p => seq[i] # s
  BY <1>3, <1>4, <1>6
<1> HIDE DEF n, p
<1>10. /\ t[1] = s
       /\ \A i \in 2 .. p : t[i] = seq[i - 1] /\ i - 1 \in 1 .. Len(seq) /\ i - 1 # p
       /\ \A i \in p + 1 .. n : t[i] = seq[i] /\ i \in 1 .. Len(seq) /\ i # p
  <2>1. \A i \in 1 .. n : t[i] = IF i = 1 THEN s ELSE IF i <= p THEN seq[i - 1] ELSE seq[i]
    OBVIOUS
  <2> HIDE DEF t
  <2>2. t[1] = s
    BY <2>1, <1>5
  <2>3. ASSUME NEW i \in 2 .. p
        PROVE  t[i] = seq[i - 1] /\ i - 1 \in 1 .. Len(seq) /\ i - 1 # p
    <3>1. i \in Int /\ i >= 2 /\ i <= p /\ i <= n /\ i \in 1 .. n /\ n <= Len(seq) + 1
      BY <1>7, <1>8
    <3>2. QED  BY <3>1, <2>1, <1>2, <1>5
  <2>4. ASSUME NEW i \in p + 1 .. n
        PROVE  t[i] = seq[i] /\ i \in 1 .. Len(seq) /\ i # p
    <3>1. i \in Int /\ i > p /\ i <= n /\ i # 1 /\ i \in 1 .. n /\ i <= Len(seq)
      BY <1>7, <1>8
    <3>2. QED  BY <3>1, <2>1, <1>2, <1>5
  <2>5. QED  BY <2>2, <2>3, <2>4
<1>11. DOMAIN t = 1 .. n /\ \A i \in 1 .. n : i = 1 \/ i \in 2 .. p \/ i \in p + 1 .. n
  BY <1>5
<1>12. \A i \in 1 .. Len(seq) : i = p \/ i + 1 \in 2 .. p \/ i \in p + 1 .. n
  <2> TAKE i \in 1 .. Len(seq)
  <2>1. i \in Int /\ p \in Int /\ n \in Int /\ 1 <= i /\ i <= n
    BY <1>2, <1>5
  <2>2. QED  BY <2>1
<1> HIDE DEF t
<1>13. \A i \in 1 .. n : t[i] \in Sessions
  BY <1>2, <1>10, <1>11
<1>14. t \in Seq(Sessions)
  BY <1>5, <1>11, <1>13, IsASeq DEF t
<1>15. IsInjective(t)
  <2> SUFFICES ASSUME NEW i \in 1 .. n, NEW j \in 1 .. n, t[i] = t[j]  PROVE i = j
    BY <1>11 DEF IsInjective
  <2>1. CASE i = 1 \/ j = 1
    BY <2>1, <1>10, <1>11, <1>9
  <2>2. CASE i \in 2 .. p /\ j \in 2 .. p
    <3>1. t[i] = seq[i - 1] /\ i - 1 \in 1 .. Len(seq)
      BY <2>2, <1>10
    <3>2. t[j] = seq[j - 1] /\ j - 1 \in 1 .. Len(seq)
      BY <2>2, <1>10
    <3>3. seq[i - 1] = seq[j - 1]
      BY <3>1, <3>2
    <3>4. i - 1 = j - 1
      BY <3>1, <3>2, <3>3, <1>6
    <3>5. i \in Int /\ j \in Int
      OBVIOUS
    <3>6. QED  BY <3>4, <3>5
  <2>3. CASE i \in 2 .. p /\ j \in p + 1 .. n
    BY <2>3, <1>5, <1>6, <1>10
  <2>4. CASE i \in p + 1 .. n /\ j \in 2 .. p
    BY <2>4, <1>5, <1>6, <1>10
  <2>5. CASE i \in p + 1 .. n /\ j \in p + 1 .. n
    BY <2>5, <1>5, <1>6, <1>10
  <2>6. QED  BY <2>1, <2>2, <2>3, <2>4, <2>5, <1>11
<1>16. Range(t) \subseteq Range(seq) \cup {s}
  BY <1>2, <1>10, <1>11 DEF Range
<1>17. \A i \in 1 .. Len(seq) : seq[i] \in Range(t)
  <2> TAKE i \in 1 .. Len(seq)
  <2>1. CASE i = p
    <3>1. known  BY <2>1, <1>2 DEF p
    <3>2. seq[i] = t[1] /\ 1 \in DOMAIN t  BY <2>1, <3>1, <1>3, <1>5, <1>10, <1>11
    <3>3. QED  BY <3>2 DEF Range
  <2>2. CASE i + 1 \in 2 .. p
    <3>1. seq[i] = t[i + 1] /\ i + 1 \in DOMAIN t  BY <2>2, <1>2, <1>5, <1>10, <1>11
    <3>2. QED  BY <3>1 DEF Range
  <2>3. CASE i \in p + 1 .. n
    <3>1. seq[i] = t[i] /\ i \in DOMAIN t  BY <2>3, <1>5, <1>10, <1>11
    <3>2. QED  BY <3>1 DEF Range
  <2>4. QED  BY <2>1, <2>2, <2>3, <1>12
<1>18. s \in Range(t)
  BY <1>5, <1>10, <1>11 DEF Range
<1>19. QED
  BY <1>1, <1>2, <1>14, <1>15, <1>16, <1>17, <1>18 DEF Range

-----------------------------------------------------------------------------
(* The invariant.                                                          *)

\* A run uses sessions the server knows.
UsedAreKnown ==
    \A r \in SRuns : srun[r].session # NoSession => sess[srun[r].session] # "absent"

\* What a run was told to replace is retired.
ReplacedAreRetired ==
    \A r \in SRuns :
        srun[r].from # NoSession => sess[srun[r].from] \in {"rollover_pending", "closed"}

\* A binding past its checks: its run still replaces the same session, and not by
\* itself; a predecessor closed by now was replaced by this very session.
BindingStillHolds(b) ==
    /\ b.from = srun[b.run].from
    /\ b.from # b.session
    /\ b.from # NoSession /\ ~ b.converged /\ sess[b.from] = "closed" =>
          srun[b.run].session = b.session

\* Row locks: one binding for a run, and one for a predecessor.
BindingsAreApart ==
    \A b, c \in binding :
        b.run = c.run \/ (b.from # NoSession /\ b.from = c.from) => b = c

SessionInv ==
    /\ SessionTypeOK
    /\ UsedAreKnown
    /\ ReplacedAreRetired
    /\ \A b \in binding : BindingStillHolds(b)
    /\ BindingsAreApart
    /\ OneReplacement
    /\ ReplacedIsClosed

LEMMA SessionInvInit == SessionInit => SessionInv
<1> SUFFICES ASSUME SessionInit PROVE SessionInv
  OBVIOUS
<1>1. SessionTypeOK
  <2>1. 1 \in Sessions /\ 0 \in 0 .. MaxForced
    BY SessionConstants DEF Sessions
  <2>2. sess \in [Sessions -> {"absent", "active", "rollover_pending", "closed"}]
    BY DEF SessionInit
  <2>3. recent \in Seq(Sessions) /\ IsInjective(recent) /\ Range(recent) = {1}
    BY <2>1 DEF SessionInit, IsInjective, Range
  <2>4. srun \in [SRuns -> SRun]
    <3>1. NoSRun \in SRun /\ [NoSRun EXCEPT !.state = "finished", !.session = 1] \in SRun
      BY <2>1 DEF NoSRun, SRun, SessionOrNone
    <3>2. QED  BY <3>1 DEF SessionInit
  <2>5. QED  BY <2>1, <2>2, <2>3, <2>4 DEF SessionTypeOK, SessionInit
<1>2. \A r \in SRuns : srun[r].from = NoSession /\ srun[r].session \in {NoSession, 1}
  BY DEF SessionInit, NoSRun
<1>3. sess[1] = "active"
  BY SessionConstants DEF SessionInit, Sessions
<1>4. \A x \in Sessions : ReplacingRuns(x) = {}
  BY <1>2 DEF ReplacingRuns, Sessions, NoSession
<1>5. QED
  BY <1>1, <1>2, <1>3, <1>4 DEF SessionInv, UsedAreKnown, ReplacedAreRetired, SessionInit,
     BindingsAreApart, OneReplacement, ReplacedIsClosed

\* The winner of a replacement is a live session of a run that replaced x.
LEMMA WinnerIsLive ==
  ASSUME SessionTypeOK, NEW x \in Sessions, Replacement(x) # NoSession
  PROVE  /\ ReplacingRuns(x) # {}
         /\ Replacement(x) \in Sessions \ {x}
         /\ sess[Replacement(x)] = "active"
<1>1. ReplacingRuns(x) # {}
  BY DEF Replacement
<1>2. ReplacingRuns(x) \subseteq 1 .. MaxSRuns /\ MaxSRuns \in Nat
  BY SessionConstants DEF ReplacingRuns, SRuns
<1>3. Max(ReplacingRuns(x)) \in ReplacingRuns(x)
  BY <1>1, <1>2, GreatestMember
<1>4. \A r \in SRuns : srun[r].session \in SessionOrNone
  BY DEF SessionTypeOK, SRun
<1>5. QED
  BY <1>1, <1>3, <1>4 DEF Replacement, ReplacingRuns, SessionOrNone

-----------------------------------------------------------------------------
(* Steps that only retire sessions and forget replacements.                *)

Retires(s) ==
    /\ sess[s] \in {"active", "rollover_pending"}
    /\ sess'[s] \in {"rollover_pending", "closed"}
    /\ sess[s] = "rollover_pending" => sess'[s] = "closed"
    /\ \A b \in binding : b.from # s

QuietRun(r) ==
    /\ srun'[r].session \in {srun[r].session, NoSession}
    /\ \/ srun'[r].from \in {srun[r].from, NoSession}
       \/ /\ srun'[r].from \in Sessions
          /\ sess'[srun'[r].from] \in {"rollover_pending", "closed"}
          /\ srun'[r].session \in {NoSession, srun'[r].from}
    /\ srun'[r].resume \notin {NoSession, srun[r].resume} => sess[srun'[r].resume] = "active"

QuietStep ==
    /\ SessionTypeOK'
    /\ binding' = binding
    /\ \A s \in Sessions : sess'[s] = sess[s] \/ Retires(s)
    /\ \A r \in SRuns : QuietRun(r)
    /\ \A b \in binding : /\ srun'[b.run].session = srun[b.run].session
                          /\ srun'[b.run].from = srun[b.run].from

\* They keep the invariant.
LEMMA QuietStepKeepsInv ==
  ASSUME SessionInv, QuietStep
  PROVE  SessionInv'
<1>1. \A r \in SRuns : srun[r] \in SRun /\ srun'[r] \in SRun
  BY DEF SessionInv, QuietStep, SessionTypeOK
<1>2. UsedAreKnown'
  <2> SUFFICES ASSUME NEW r \in SRuns, srun'[r].session # NoSession
               PROVE  sess'[srun'[r].session] # "absent"
    BY DEF UsedAreKnown
  <2>1. srun'[r].session = srun[r].session /\ srun[r].session \in Sessions
    BY <1>1 DEF QuietStep, QuietRun, SRun, SessionOrNone
  <2>2. QED  BY <2>1 DEF SessionInv, UsedAreKnown, QuietStep, Retires
<1>3. ReplacedAreRetired'
  <2> SUFFICES ASSUME NEW r \in SRuns, srun'[r].from # NoSession
               PROVE  sess'[srun'[r].from] \in {"rollover_pending", "closed"}
    BY DEF ReplacedAreRetired
  <2>1. srun'[r].from \in Sessions
    BY <1>1 DEF SRun, SessionOrNone
  <2>2. QED
    BY <2>1 DEF SessionInv, ReplacedAreRetired, QuietStep, QuietRun, Retires
<1>4. (\A b \in binding : BindingStillHolds(b))'
  <2> SUFFICES ASSUME NEW b \in binding PROVE BindingStillHolds(b)'
    BY DEF QuietStep
  <2>1. BindingStillHolds(b) /\ b.from \in SessionOrNone
    BY DEF SessionInv, SessionTypeOK
  <2>2. b.from # NoSession => sess'[b.from] = sess[b.from]
    BY <2>1 DEF QuietStep, Retires, SessionOrNone
  <2>3. QED  BY <2>1, <2>2 DEF QuietStep, BindingStillHolds
<1>5. BindingsAreApart'
  BY DEF SessionInv, QuietStep, BindingsAreApart
<1>6. \A x \in Sessions : \A r \in ReplacingRuns(x)' :
         r \in ReplacingRuns(x) /\ srun'[r].session = srun[r].session
  <2> SUFFICES ASSUME NEW x \in Sessions, NEW r \in SRuns, r \in ReplacingRuns(x)'
               PROVE  r \in ReplacingRuns(x) /\ srun'[r].session = srun[r].session
    BY DEF ReplacingRuns
  <2>1. /\ srun'[r].from = x /\ srun'[r].session \in Sessions \ {x}
        /\ sess'[srun'[r].session] = "active"
    BY <1>1 DEF ReplacingRuns, SRun, SessionOrNone
  <2>2. srun'[r].session = srun[r].session
    BY <2>1 DEF QuietStep, QuietRun, NoSession, Sessions
  <2>3. srun[r].from = x
    BY <2>1 DEF QuietStep, QuietRun, NoSession, Sessions
  <2>4. sess[srun[r].session] = "active"
    BY <2>1, <2>2 DEF QuietStep, Retires
  <2>5. QED  BY <2>1, <2>2, <2>3, <2>4 DEF ReplacingRuns
<1>7. OneReplacement'
  BY <1>6 DEF SessionInv, OneReplacement
<1>8. ReplacedIsClosed'
  <2> SUFFICES ASSUME NEW x \in Sessions, NEW r \in ReplacingRuns(x)' PROVE sess'[x] = "closed"
    BY DEF ReplacedIsClosed
  <2>1. sess[x] = "closed"
    BY <1>6 DEF SessionInv, ReplacedIsClosed
  <2>2. QED  BY <2>1 DEF QuietStep, Retires
<1>9. QED
  BY <1>2, <1>3, <1>4, <1>5, <1>7, <1>8 DEF SessionInv, QuietStep

-----------------------------------------------------------------------------
(* Which steps are quiet.                                                  *)

Status == {"absent", "active", "rollover_pending", "closed"}

\* What a step that is to be quiet does to the sessions: it retires those no binding
\* replaces, and at most moves known ones to the front.
QuietSessions ==
    /\ sess' \in [Sessions -> Status]
    /\ \A s \in Sessions : sess'[s] = sess[s] \/ Retires(s)
    /\ recent' \in Seq(Sessions) /\ IsInjective(recent') /\ Range(recent') = Range(recent)

LEMMA QuietTypes ==
  ASSUME SessionTypeOK, QuietSessions, srun' \in [SRuns -> SRun], binding' = binding,
         forced' \in 0 .. MaxForced
  PROVE  SessionTypeOK'
BY DEF SessionTypeOK, QuietSessions, Retires, Status

LEMMA NothingIsQuiet ==
  ASSUME SessionTypeOK, UNCHANGED <<sess, recent>>
  PROVE  QuietSessions
BY DEF SessionTypeOK, QuietSessions, Status

\* Moving a known session to the front and retiring one whose row is free.
LEMMA RetiringIsQuiet ==
  ASSUME SessionTypeOK, NEW x \in Sessions, SessionRowFree(x), sess[x] # "absent",
         sess' \in [Sessions -> Status],
         \A s \in Sessions \ {x} : sess'[s] = sess[s],
         \/ sess'[x] = sess[x]
         \/ sess[x] \in {"active", "rollover_pending"} /\ sess'[x] = "closed"
         \/ sess[x] = "active" /\ sess'[x] = "rollover_pending",
         recent' \in {recent, Touch(x, recent)}
  PROVE  QuietSessions
<1>1. x \in Range(recent) /\ recent \in Seq(Sessions) /\ IsInjective(recent)
  BY DEF SessionTypeOK
<1>2. recent' \in Seq(Sessions) /\ IsInjective(recent') /\ Range(recent') = Range(recent)
  <2>1. CASE recent' = recent
    BY <2>1, <1>1
  <2>2. CASE recent' = Touch(x, recent)
    <3>1. Range(recent) \cup {x} = Range(recent)
      BY <1>1
    <3>2. QED  BY <2>2, <3>1, <1>1, TouchMoves
  <2>3. QED  BY <2>1, <2>2
<1>3. sess'[x] = sess[x] \/ Retires(x)
  BY DEF Retires, SessionRowFree
<1>4. QED  BY <1>2, <1>3 DEF QuietSessions

\* Closing a retired session, the usual case of it.
LEMMA ClosingIsQuiet ==
  ASSUME SessionTypeOK, NEW x \in Sessions, SessionRowFree(x), sess[x] # "absent",
         sess' = CloseIfPending(x, sess), recent' = TouchIfPending(x)
  PROVE  QuietSessions
<1>1. sess \in [Sessions -> Status]
  BY DEF SessionTypeOK, Status
<1>2. /\ sess' \in [Sessions -> Status]
      /\ \A s \in Sessions \ {x} : sess'[s] = sess[s]
      /\ sess'[x] = IF sess[x] = "rollover_pending" THEN "closed" ELSE sess[x]
  BY <1>1 DEF CloseIfPending, Status
<1>3. recent' \in {recent, Touch(x, recent)}
  BY DEF TouchIfPending
<1>4. QED  BY <1>2, <1>3, RetiringIsQuiet

\* A step of one run whose row no binding has locked.
LEMMA QuietRunStep ==
  ASSUME SessionTypeOK, NEW r \in SRuns, NEW row \in SRun,
         srun' = [srun EXCEPT ![r] = row], RunRowFree(r), QuietSessions, QuietRun(r),
         binding' = binding, forced' \in 0 .. MaxForced
  PROVE  QuietStep
<1>1. srun \in [SRuns -> SRun]
  BY DEF SessionTypeOK
<1>2. srun' \in [SRuns -> SRun] /\ \A q \in SRuns \ {r} : srun'[q] = srun[q]
  BY <1>1
<1>3. SessionTypeOK'
  BY <1>2, QuietTypes
<1>4. \A q \in SRuns : QuietRun(q)
  BY <1>2 DEF QuietRun
<1>5. \A b \in binding : b.run \in SRuns /\ b.run # r
  BY DEF RunRowFree, SessionTypeOK
<1>6. QED  BY <1>2, <1>3, <1>4, <1>5 DEF QuietStep, QuietSessions

LEMMA StartIsQuiet ==
  ASSUME SessionInv, NEW r \in SRuns, StartSRun(r)
  PROVE  QuietStep
<1>1. srun \in [SRuns -> SRun] /\ SessionTypeOK
  BY DEF SessionInv, SessionTypeOK
<1>2. /\ srun' \in [SRuns -> SRun]
      /\ \A q \in SRuns : /\ srun'[q].session = srun[q].session
                          /\ srun'[q].from = srun[q].from
                          /\ srun'[q].resume = srun[q].resume
  BY <1>1 DEF StartSRun, SRun
<1>3. QuietSessions /\ SessionTypeOK'
  BY <1>1, <1>2, NothingIsQuiet, QuietTypes DEF StartSRun, SessionTypeOK
<1>4. QED
  BY <1>2, <1>3 DEF QuietStep, QuietSessions, QuietRun, StartSRun, SessionInv, SessionTypeOK

LEMMA FinishIsQuiet ==
  ASSUME SessionInv, NEW r \in SRuns, FinishSRun(r)
  PROVE  QuietStep
<1> DEFINE row == [srun[r] EXCEPT !.state = "finished", !.resume = NoSession,
                                  !.fresh = FALSE, !.asked = FALSE]
<1>1. srun \in [SRuns -> SRun] /\ SessionTypeOK /\ srun[r] \in SRun
  BY DEF SessionInv, SessionTypeOK
<1>2. /\ row \in SRun /\ row.session = srun[r].session /\ row.from = srun[r].from
      /\ row.resume = NoSession
  BY <1>1 DEF SRun, SessionOrNone
<1>3. srun' = [srun EXCEPT ![r] = row] /\ srun'[r] = row
  BY <1>1 DEF FinishSRun
<1>4. QuietSessions
  BY <1>1, NothingIsQuiet DEF FinishSRun
<1> HIDE DEF row
<1>5. QuietRun(r)
  BY <1>2, <1>3 DEF QuietRun
<1>6. QED
  BY <1>1, <1>2, <1>3, <1>4, <1>5, QuietRunStep DEF FinishSRun, SessionTypeOK

\* What a dispatch writes into the run, if it only forgets what the run had.
LEMMA TellingIsQuiet ==
  ASSUME SessionTypeOK, NEW r \in SRuns, NEW run \in SRun, NEW resume \in SessionOrNone,
         NEW fresh \in BOOLEAN,
         srun' = [srun EXCEPT ![r] = Told(run, resume, fresh)], RunRowFree(r), QuietSessions,
         run.session \in {srun[r].session, NoSession},
         \/ run.from \in {srun[r].from, NoSession}
         \/ /\ run.from \in Sessions
            /\ sess'[run.from] \in {"rollover_pending", "closed"}
            /\ run.session \in {NoSession, run.from},
         resume # NoSession => sess[resume] = "active",
         binding' = binding, forced' \in 0 .. MaxForced
  PROVE  QuietStep
<1> DEFINE row == Told(run, resume, fresh)
<1>1. /\ row \in SRun /\ row.session = run.session /\ row.from = run.from
      /\ row.resume = resume
  BY DEF Told, SRun
<1>2. srun' = [srun EXCEPT ![r] = row] /\ srun'[r] = row
  BY DEF SessionTypeOK
<1> HIDE DEF row
<1>3. QuietRun(r)
  BY <1>1, <1>2 DEF QuietRun
<1>4. QED  BY <1>1, <1>2, <1>3, QuietRunStep

-----------------------------------------------------------------------------
(* The branches of ResolveSessionDispatch.                                 *)

LEMMA PersistedIsQuiet ==
  ASSUME SessionInv, NEW r \in SRuns, RunRowFree(r), srun[r].from # NoSession,
         SessionRowFree(srun[r].from), ResolvePersisted(r, srun[r].from, srun[r]),
         binding' = binding, forced' \in 0 .. MaxForced
  PROVE  QuietStep
<1> DEFINE x == srun[r].from
           run == srun[r]
           win == Replacement(x)
           own == run.session \notin {NoSession, x}
           unbound == IF run.session = x THEN NoSession ELSE run.session
           forgets == [run EXCEPT !.session = unbound, !.from = NoSession]
<1>1. SessionTypeOK /\ run \in SRun /\ x \in Sessions /\ NoSession \in SessionOrNone
  BY DEF SessionInv, SessionTypeOK, SRun, SessionOrNone
<1>2. sess[x] \in {"rollover_pending", "closed"}
  BY DEF SessionInv, ReplacedAreRetired
<1>3. unbound \in {run.session, NoSession} /\ unbound \in SessionOrNone
  BY <1>1 DEF SRun
<1>4. /\ forgets \in SRun /\ forgets.session = unbound /\ forgets.from = NoSession
  BY <1>1, <1>3 DEF SRun
<1>5. win # NoSession => win \in SessionOrNone /\ sess[win] = "active"
  BY <1>1, WinnerIsLive DEF SessionOrNone
<1>6. CASE own
  <2>1. /\ sess[run.session] = "active"
        /\ sess' = CloseIfPending(x, sess) /\ recent' = TouchIfPending(x)
        /\ srun' = [srun EXCEPT ![r] = Told(run, run.session, FALSE)]
    BY <1>6 DEF ResolvePersisted
  <2>2. QuietSessions
    BY <2>1, <1>1, <1>2, ClosingIsQuiet
  <2>3. run.session \in SessionOrNone
    BY <1>1 DEF SRun
  <2>4. QED  BY <2>1, <2>2, <2>3, <1>1, TellingIsQuiet
<1>7. CASE ~ own /\ win # NoSession
  <2>1. /\ sess' = CloseIfPending(x, sess) /\ recent' = TouchIfPending(x)
        /\ srun' = [srun EXCEPT ![r] = Told(forgets, win, FALSE)]
    BY <1>7 DEF ResolvePersisted
  <2>2. QuietSessions
    BY <2>1, <1>1, <1>2, ClosingIsQuiet
  <2> HIDE DEF forgets, win, unbound
  <2>3. QED  BY <2>1, <2>2, <1>1, <1>3, <1>4, <1>5, <1>7, TellingIsQuiet
<1>8. CASE ~ own /\ win = NoSession /\ sess[x] = "closed"
  <2>1. /\ UNCHANGED <<sess, recent>>
        /\ srun' = [srun EXCEPT ![r] = Told(forgets, NoSession, FALSE)]
    BY <1>8 DEF ResolvePersisted
  <2>2. QuietSessions
    BY <2>1, <1>1, NothingIsQuiet
  <2> HIDE DEF forgets, win, unbound
  <2>3. QED  BY <2>1, <2>2, <1>1, <1>3, <1>4, TellingIsQuiet
<1>9. CASE ~ own /\ win = NoSession /\ sess[x] # "closed"
  <2>1. /\ UNCHANGED <<sess, recent>>
        /\ srun' = [srun EXCEPT ![r] = Told(run, NoSession, TRUE)]
    BY <1>9 DEF ResolvePersisted
  <2>2. QuietSessions
    BY <2>1, <1>1, NothingIsQuiet
  <2>3. QED  BY <2>1, <2>2, <1>1, TellingIsQuiet
<1>10. QED  BY <1>6, <1>7, <1>8, <1>9

LEMMA BoundIsQuiet ==
  ASSUME SessionInv, NEW r \in SRuns, RunRowFree(r), srun[r].from = NoSession,
         srun[r].session # NoSession, ResolveBound(r, srun[r].session),
         binding' = binding, forced' \in 0 .. MaxForced
  PROVE  QuietStep
<1> DEFINE cur == srun[r].session
           replacing == [srun[r] EXCEPT !.from = cur]
           unbound == [srun[r] EXCEPT !.session = NoSession]
<1>1. /\ SessionTypeOK /\ srun[r] \in SRun /\ cur \in Sessions
      /\ cur \in SessionOrNone /\ NoSession \in SessionOrNone
  BY DEF SessionInv, SessionTypeOK, SRun, SessionOrNone
<1>2. UNCHANGED <<sess, recent>> /\ QuietSessions
  BY <1>1, NothingIsQuiet DEF ResolveBound
<1>3. CASE sess[cur] = "active" /\ srun' = [srun EXCEPT ![r] = Told(srun[r], cur, FALSE)]
  BY <1>1, <1>2, <1>3, TellingIsQuiet
<1>4. CASE sess[cur] = "rollover_pending"
           /\ srun' = [srun EXCEPT ![r] = Told(replacing, NoSession, TRUE)]
  <2>1. replacing \in SRun /\ replacing.session = cur /\ replacing.from = cur
    BY <1>1 DEF SRun
  <2> HIDE DEF replacing
  <2>2. QED  BY <2>1, <1>1, <1>2, <1>4, TellingIsQuiet
<1>5. CASE srun' = [srun EXCEPT ![r] = Told(unbound, Replacement(cur), FALSE)]
  <2>1. unbound \in SRun /\ unbound.session = NoSession /\ unbound.from = srun[r].from
    BY <1>1 DEF SRun
  <2> DEFINE win == Replacement(cur)
  <2>2. win \in SessionOrNone /\ (win # NoSession => sess[win] = "active")
    BY <1>1, WinnerIsLive DEF SessionOrNone
  <2>3. srun' = [srun EXCEPT ![r] = Told(unbound, win, FALSE)]
    BY <1>5
  <2> HIDE DEF unbound, win
  <2>4. QED  BY <2>1, <2>2, <2>3, <1>1, <1>2, TellingIsQuiet
<1>6. QED  BY <1>3, <1>4, <1>5 DEF ResolveBound

LEMMA ForcedIsQuiet ==
  ASSUME SessionInv, NEW r \in SRuns, NEW ask \in SessionOrNone, RunRowFree(r),
         srun[r].from = NoSession, srun[r].session = NoSession, ResolveForced(r, ask),
         binding' = binding, forced' \in 0 .. MaxForced
  PROVE  QuietStep
<1>1. SessionTypeOK /\ srun[r] \in SRun /\ NoSession \in SessionOrNone
  BY DEF SessionInv, SessionTypeOK, SessionOrNone
<1>2. CASE ~ (ask # NoSession /\ BoundRuns(ask) # {})
  <2>1. UNCHANGED <<sess, recent>> /\ srun' = [srun EXCEPT ![r] = Told(srun[r], NoSession, TRUE)]
    BY <1>2 DEF ResolveForced
  <2>2. QED  BY <2>1, <1>1, NothingIsQuiet, TellingIsQuiet
<1>3. CASE ask # NoSession /\ BoundRuns(ask) # {}
  <2> DEFINE ss == [sess EXCEPT ![ask] = IF @ = "active" THEN "rollover_pending" ELSE @]
             win == Replacement(ask)
             run == [srun[r] EXCEPT !.from = ask]
             asking == [run EXCEPT !.from = NoSession]
  <2>1. ask \in Sessions /\ SessionRowFree(ask) /\ sess \in [Sessions -> Status]
    BY <1>1, <1>3 DEF ResolveForced, SessionOrNone, SessionTypeOK, Status
  <2>2. sess[ask] # "absent"
    BY <1>3, <2>1 DEF BoundRuns, SessionInv, UsedAreKnown
  <2>3. /\ ss \in [Sessions -> Status] /\ \A t \in Sessions \ {ask} : ss[t] = sess[t]
        /\ ss[ask] = IF sess[ask] = "active" THEN "rollover_pending" ELSE sess[ask]
    BY <2>1 DEF Status
  <2>4. asking \in SRun /\ asking.session = NoSession /\ asking.from = NoSession
    BY <1>1 DEF SRun
  <2>5. run \in SRun /\ run.session = NoSession /\ run.from = ask
    BY <1>1 DEF SRun
  <2>6. win \in SessionOrNone /\ (win # NoSession => sess[win] = "active")
    BY <1>1, <2>1, WinnerIsLive DEF SessionOrNone
  <2>7. CASE win # NoSession
    <3>1. /\ sess' = CloseIfPending(ask, ss) /\ recent' = Touch(ask, recent)
          /\ srun' = [srun EXCEPT ![r] = Told(asking, win, FALSE)]
      BY <1>3, <2>7 DEF ResolveForced
    <3> HIDE DEF asking, win, ss
    <3>2. /\ sess' \in [Sessions -> Status] /\ \A t \in Sessions \ {ask} : sess'[t] = sess[t]
          /\ sess'[ask] = IF ss[ask] = "rollover_pending" THEN "closed" ELSE ss[ask]
      BY <3>1, <2>1, <2>3 DEF CloseIfPending, Status
    <3>3. sess'[ask] = sess[ask]
             \/ (sess[ask] \in {"active", "rollover_pending"} /\ sess'[ask] = "closed")
      BY <3>2, <2>1, <2>3 DEF Status
    <3>4. QuietSessions
      BY <3>1, <3>2, <3>3, <1>1, <2>1, <2>2, RetiringIsQuiet
    <3>5. QED  BY <3>1, <3>4, <2>4, <2>6, <1>1, TellingIsQuiet
  <2>8. CASE win = NoSession /\ ss[ask] = "closed"
    <3>1. /\ UNCHANGED <<sess, recent>>
          /\ srun' = [srun EXCEPT ![r] = Told(asking, NoSession, FALSE)]
      BY <1>3, <2>8 DEF ResolveForced
    <3> HIDE DEF asking, win, ss
    <3>2. QED  BY <3>1, <2>4, <1>1, NothingIsQuiet, TellingIsQuiet
  <2>9. CASE win = NoSession /\ ss[ask] # "closed"
    <3>1. /\ sess' = ss
          /\ recent' = IF sess[ask] = "active" THEN Touch(ask, recent) ELSE recent
          /\ srun' = [srun EXCEPT ![r] = Told(run, NoSession, TRUE)]
      BY <1>3, <2>9 DEF ResolveForced
    <3> HIDE DEF run, win, ss
    <3>2. recent' \in {recent, Touch(ask, recent)}
      BY <3>1
    <3>3. sess'[ask] = sess[ask] \/ (sess[ask] = "active" /\ sess'[ask] = "rollover_pending")
      BY <3>1, <2>3
    <3>4. QuietSessions
      BY <3>1, <3>2, <3>3, <1>1, <2>1, <2>2, <2>3, RetiringIsQuiet
    <3>5. sess'[ask] \in {"rollover_pending", "closed"}
      BY <3>1, <2>2, <2>3, <2>1, <2>9 DEF Status
    <3>6. QED  BY <3>1, <3>4, <3>5, <2>5, <2>1, <1>1, TellingIsQuiet
  <2>10. QED  BY <2>7, <2>8, <2>9
<1>4. QED  BY <1>2, <1>3

\* The candidate is a session other runs used that is not closed.
LEMMA CandidateIsKnown ==
  ASSUME SessionTypeOK, NEW r \in SRuns, Candidate(r) # NoSession
  PROVE  Candidate(r) \in Sessions /\ sess[Candidate(r)] \in {"active", "rollover_pending"}
<1> DEFINE places == {i \in DOMAIN recent : recent[i] \in Candidates(r)}
<1>1. DOMAIN recent \subseteq Nat
  BY DEF SessionTypeOK
<1>2. places # {} /\ Candidate(r) = recent[Min(places)]
  BY DEF Candidate
<1>3. places \subseteq Nat
  BY <1>1
<1> HIDE DEF places
<1>4. Min(places) \in places
  BY <1>2, <1>3, LeastMember
<1>5. Candidate(r) \in Candidates(r)
  BY <1>2, <1>4 DEF places
<1>6. QED  BY <1>5 DEF Candidates

LEMMA LatestIsQuiet ==
  ASSUME SessionInv, NEW r \in SRuns, NEW ask \in SessionOrNone, RunRowFree(r),
         srun[r].from = NoSession, srun[r].session = NoSession, ResolveLatest(r, ask),
         binding' = binding, forced' \in 0 .. MaxForced
  PROVE  QuietStep
<1> DEFINE c == Candidate(r)
           asked == IF ask # NoSession /\ BoundRuns(ask) # {} /\ sess[ask] = "active" THEN ask
                    ELSE c
           win == Replacement(c)
           replacing == [srun[r] EXCEPT !.from = c]
<1>1. SessionTypeOK /\ srun[r] \in SRun /\ NoSession \in SessionOrNone
  BY DEF SessionInv, SessionTypeOK, SessionOrNone
<1>2. CASE c = NoSession
  <2>1. UNCHANGED <<sess, recent>> /\ srun' = [srun EXCEPT ![r] = Told(srun[r], NoSession, FALSE)]
    BY <1>2 DEF ResolveLatest
  <2>2. QED  BY <2>1, <1>1, NothingIsQuiet, TellingIsQuiet
<1>3. CASE c # NoSession
  <2>1. /\ c \in Sessions /\ c \in SessionOrNone /\ SessionRowFree(c)
        /\ sess[c] \in {"active", "rollover_pending"}
    BY <1>1, <1>3, CandidateIsKnown DEF ResolveLatest, SessionOrNone
  <2>2. win # NoSession => win \in SessionOrNone /\ sess[win] = "active"
    BY <1>1, <2>1, WinnerIsLive DEF SessionOrNone
  <2>3. CASE sess[c] = "active"
    <3>1. UNCHANGED <<sess, recent>> /\ srun' = [srun EXCEPT ![r] = Told(srun[r], asked, FALSE)]
      BY <1>3, <2>3 DEF ResolveLatest
    <3>2. asked \in SessionOrNone /\ (asked # NoSession => sess[asked] = "active")
      BY <2>1, <2>3
    <3> HIDE DEF asked
    <3>3. QED  BY <3>1, <3>2, <1>1, NothingIsQuiet, TellingIsQuiet
  <2>4. CASE sess[c] # "active" /\ win # NoSession
    <3>1. /\ sess' = CloseIfPending(c, sess) /\ recent' = TouchIfPending(c)
          /\ srun' = [srun EXCEPT ![r] = Told(srun[r], win, FALSE)]
      BY <1>3, <2>4 DEF ResolveLatest
    <3>2. QuietSessions
      BY <3>1, <1>1, <2>1, ClosingIsQuiet
    <3> HIDE DEF win, c
    <3>3. QED  BY <3>1, <3>2, <1>1, <2>2, <2>4, TellingIsQuiet
  <2>5. CASE sess[c] # "active" /\ win = NoSession
    <3>1. /\ UNCHANGED <<sess, recent>>
          /\ srun' = [srun EXCEPT ![r] = Told(replacing, NoSession, TRUE)]
      BY <1>3, <2>5 DEF ResolveLatest
    <3>2. replacing \in SRun /\ replacing.session = NoSession /\ replacing.from = c
      BY <1>1, <2>1 DEF SRun
    <3>3. sess'[c] = "rollover_pending"
      BY <3>1, <2>1, <2>5
    <3> HIDE DEF win, c, replacing
    <3>4. QED  BY <3>1, <3>2, <3>3, <1>1, <2>1, NothingIsQuiet, TellingIsQuiet
  <2>6. QED  BY <2>3, <2>4, <2>5
<1>4. QED  BY <1>2, <1>3

LEMMA ResolveIsQuiet ==
  ASSUME SessionInv, NEW r \in SRuns, NEW ask \in SessionOrNone, NEW force \in BOOLEAN,
         ResolveSessionDispatch(r, ask, force)
  PROVE  QuietStep
<1>1. RunRowFree(r) /\ binding' = binding
  BY DEF ResolveSessionDispatch
<1>2. forced' \in 0 .. MaxForced
  BY SessionConstants DEF ResolveSessionDispatch, SessionInv, SessionTypeOK
<1>3. CASE srun[r].from # NoSession
  BY <1>1, <1>2, <1>3, PersistedIsQuiet DEF ResolveSessionDispatch
<1>4. CASE srun[r].from = NoSession /\ srun[r].session # NoSession
  BY <1>1, <1>2, <1>4, BoundIsQuiet DEF ResolveSessionDispatch
<1>5. CASE srun[r].from = NoSession /\ srun[r].session = NoSession /\ force
  BY <1>1, <1>2, <1>5, ForcedIsQuiet DEF ResolveSessionDispatch
<1>6. CASE srun[r].from = NoSession /\ srun[r].session = NoSession /\ ~ force
  BY <1>1, <1>2, <1>6, LatestIsQuiet DEF ResolveSessionDispatch
<1>7. QED  BY <1>3, <1>4, <1>5, <1>6

-----------------------------------------------------------------------------
(* Retiring and closing are quiet, too.                                    *)

LEMMA UnchangedRunsAreQuiet ==
  ASSUME SessionTypeOK, QuietSessions, UNCHANGED <<srun, binding, forced>>
  PROVE  QuietStep
<1>1. SessionTypeOK'
  BY QuietTypes DEF SessionTypeOK
<1>2. QED  BY <1>1 DEF QuietStep, QuietSessions, QuietRun

LEMMA RequestIsQuiet ==
  ASSUME SessionInv, NEW r \in SRuns, RequestRollover(r)
  PROVE  QuietStep
<1> DEFINE x == srun[r].session
<1>1. SessionTypeOK /\ x \in Sessions /\ sess \in [Sessions -> Status]
  BY DEF SessionInv, SessionTypeOK, RequestRollover, SRun, SessionOrNone, Status
<1>2. /\ SessionRowFree(x) /\ sess[x] = "active" /\ recent' = Touch(x, recent)
      /\ sess' \in [Sessions -> Status] /\ sess'[x] = "rollover_pending"
      /\ \A s \in Sessions \ {x} : sess'[s] = sess[s]
  BY <1>1 DEF RequestRollover, Status
<1>3. QuietSessions
  BY <1>1, <1>2, RetiringIsQuiet
<1>4. QED  BY <1>1, <1>3, UnchangedRunsAreQuiet DEF RequestRollover

LEMMA CloseIsQuiet ==
  ASSUME SessionInv, CloseSessions
  PROVE  QuietStep
<1>1. SessionTypeOK /\ sess \in [Sessions -> Status]
  BY DEF SessionInv, SessionTypeOK, Status
<1>2. sess' \in [Sessions -> Status] /\ \A s \in Sessions : sess'[s] = sess[s] \/ Retires(s)
  BY <1>1 DEF CloseSessions, Status, Retires, SessionRowFree
<1>3. QuietSessions
  BY <1>1, <1>2 DEF QuietSessions, SessionTypeOK, CloseSessions
<1>4. QED  BY <1>1, <1>3, UnchangedRunsAreQuiet DEF CloseSessions

-----------------------------------------------------------------------------
(* Bindings.                                                               *)

LEMMA BindReadsKeepsInv ==
  ASSUME SessionInv, NEW r \in SRuns, NEW s \in Sessions, BindReads(r, s)
  PROVE  SessionInv'
<1> DEFINE x == srun[r].from
           follows == x # NoSession /\ srun[r].session # s /\ Converges(r, s, x)
           row == [run |-> r, session |-> s, from |-> x, converged |-> follows]
<1>1. UNCHANGED <<sess, recent, srun, forced>> /\ binding' = binding \cup {row}
  BY DEF BindReads
<1>2. x \in SessionOrNone
  BY DEF SessionInv, SessionTypeOK, SRun
<1>3. PICK new \in [run : SRuns, session : Sessions, from : SessionOrNone,
                    converged : BOOLEAN] :
         /\ binding' = binding \cup {new}
         /\ new.run = r /\ new.session = s /\ new.from = x
         /\ new.converged = follows
  <2>1. follows \in BOOLEAN
    OBVIOUS
  <2> HIDE DEF follows
  <2>2. /\ row \in [run : SRuns, session : Sessions, from : SessionOrNone,
                    converged : BOOLEAN]
        /\ row.run = r /\ row.session = s /\ row.from = x /\ row.converged = follows
    BY <2>1, <1>2
  <2>3. QED  BY <2>2, <1>1
<1>4. x # NoSession => MayReplace(r, s, x) /\ SessionRowFree(x)
  BY DEF BindReads
<1>5. s # x
  BY <1>4 DEF MayReplace, Sessions, NoSession
<1>6. x # NoSession /\ ~ new.converged /\ sess[x] = "closed" => srun[r].session = s
  BY <1>3, <1>4 DEF MayReplace
<1>7. SessionTypeOK'
  BY <1>1, <1>3 DEF SessionInv, SessionTypeOK
<1>8. BindingStillHolds(new)'
  BY <1>1, <1>3, <1>5, <1>6 DEF BindingStillHolds
<1>9. \A b \in binding : BindingStillHolds(b)'
  BY <1>1 DEF SessionInv, BindingStillHolds
<1>10. BindingsAreApart'
  <2>1. \A b \in binding : b.run # r /\ (x # NoSession => b.from # x)
    BY <1>4 DEF BindReads, RunRowFree, SessionRowFree
  <2>2. QED  BY <2>1, <1>1, <1>3 DEF SessionInv, BindingsAreApart
<1>11. UsedAreKnown' /\ ReplacedAreRetired' /\ OneReplacement' /\ ReplacedIsClosed'
  BY <1>1 DEF SessionInv, UsedAreKnown, ReplacedAreRetired, OneReplacement, ReplacedIsClosed,
     ReplacingRuns
<1>12. QED
  BY <1>3, <1>7, <1>8, <1>9, <1>10, <1>11 DEF SessionInv

\* What a binding writes.
LEMMA BindWrites ==
  ASSUME SessionInv, NEW b \in binding, BindCommits(b)
  PROVE  /\ binding' = binding \ {b}
         /\ b.run \in SRuns /\ b.session \in Sessions /\ b.from \in SessionOrNone
         /\ srun' \in [SRuns -> SRun] /\ sess' \in [Sessions -> Status]
         /\ \A q \in SRuns \ {b.run} : srun'[q] = srun[q]
         /\ srun'[b.run].session = b.session
         /\ srun'[b.run].from = IF b.converged THEN NoSession ELSE b.from
         /\ srun'[b.run].resume = srun[b.run].resume
         /\ \A t \in Sessions \ {b.session, b.from} : sess'[t] = sess[t]
         /\ sess'[b.session] = IF sess[b.session] = "absent" THEN "active" ELSE sess[b.session]
         /\ b.from # NoSession => sess'[b.from] = IF b.converged THEN sess[b.from] ELSE "closed"
<1> DEFINE row == [srun[b.run] EXCEPT !.session = b.session,
                                      !.from = IF b.converged THEN NoSession ELSE @]
           opened == [sess EXCEPT ![b.session] = IF @ = "absent" THEN "active" ELSE @]
<1>1. /\ b.run \in SRuns /\ b.session \in Sessions /\ b.from \in SessionOrNone
      /\ b.converged \in BOOLEAN
  BY DEF SessionInv, SessionTypeOK
<1>2. srun \in [SRuns -> SRun] /\ srun[b.run] \in SRun /\ sess \in [Sessions -> Status]
  BY <1>1 DEF SessionInv, SessionTypeOK, Status
<1>3. b.from = srun[b.run].from /\ b.from # b.session
  BY DEF SessionInv, BindingStillHolds
<1>4. /\ row \in SRun /\ row.session = b.session /\ row.resume = srun[b.run].resume
      /\ row.from = IF b.converged THEN NoSession ELSE b.from
  BY <1>1, <1>2, <1>3 DEF SRun, SessionOrNone
<1>5. srun' = [srun EXCEPT ![b.run] = row]
  BY <1>1, <1>2 DEF BindCommits
<1>6. /\ opened \in [Sessions -> Status]
      /\ \A t \in Sessions \ {b.session} : opened[t] = sess[t]
      /\ opened[b.session] = IF sess[b.session] = "absent" THEN "active" ELSE sess[b.session]
  BY <1>1, <1>2 DEF Status
<1>7. b.from # NoSession => b.from \in Sessions /\ sess[b.from] \in {"rollover_pending", "closed"}
  BY <1>1, <1>3 DEF SessionInv, ReplacedAreRetired, SessionOrNone
<1>8. sess' = IF b.from # NoSession /\ ~ b.converged THEN CloseIfPending(b.from, opened)
              ELSE opened
  BY DEF BindCommits
<1> HIDE DEF row, opened
<1>9. /\ srun' \in [SRuns -> SRun] /\ srun'[b.run] = row
      /\ \A q \in SRuns \ {b.run} : srun'[q] = srun[q]
  BY <1>1, <1>2, <1>4, <1>5
<1>10. CASE b.from # NoSession /\ ~ b.converged
  <2>1. /\ sess' \in [Sessions -> Status]
        /\ \A t \in Sessions \ {b.from} : sess'[t] = opened[t]
        /\ sess'[b.from] = "closed"
    BY <1>3, <1>6, <1>7, <1>8, <1>10 DEF CloseIfPending, Status
  <2>2. QED  BY <2>1, <1>1, <1>3, <1>4, <1>6, <1>9, <1>10 DEF BindCommits
<1>11. CASE b.from = NoSession \/ b.converged
  <2>1. b.from # NoSession => opened[b.from] = sess[b.from]
    BY <1>3, <1>6, <1>7
  <2>2. QED  BY <2>1, <1>1, <1>3, <1>4, <1>6, <1>8, <1>9, <1>11 DEF BindCommits
<1>12. QED  BY <1>10, <1>11, <1>1

LEMMA BindCommitsKeepsInv ==
  ASSUME SessionInv, NEW b \in binding, BindCommits(b)
  PROVE  SessionInv'
<1> USE BindWrites
<1>1. /\ b.from = srun[b.run].from /\ b.from # b.session
      /\ b.from # NoSession /\ ~ b.converged /\ sess[b.from] = "closed" =>
            srun[b.run].session = b.session
  BY DEF SessionInv, BindingStillHolds
<1>2. b.from # NoSession => b.from \in Sessions /\ sess[b.from] \in {"rollover_pending", "closed"}
  BY <1>1 DEF SessionInv, ReplacedAreRetired, SessionOrNone
<1>3. \A q \in SRuns : srun[q] \in SRun /\ srun'[q] \in SRun
  BY DEF SessionInv, SessionTypeOK
<1>4. \A t \in Sessions : /\ sess'[t] # sess[t] => t = b.session \/ t = b.from
                          /\ sess[t] \in {"rollover_pending", "closed"} =>
                                sess'[t] \in {sess[t], "closed"}
                          /\ sess[t] # "absent" => sess'[t] # "absent"
                          /\ sess'[t] = "active" => sess[t] \in {"absent", "active"}
  <2> TAKE t \in Sessions
  <2>1. CASE t = b.from
    BY <2>1, <1>1, <1>2 DEF NoSession, Sessions
  <2>2. CASE t = b.session
    BY <2>2, <1>1
  <2>3. CASE t # b.from /\ t # b.session
    BY <2>3
  <2>4. QED  BY <2>1, <2>2, <2>3
<1>5. SessionTypeOK'
  <2>1. SessionTypeOK
    BY DEF SessionInv
  <2>2. /\ recent' \in Seq(Sessions) /\ IsInjective(recent')
        /\ Range(recent') = Range(recent) \cup {b.session}
    <3> DEFINE older == Touch(b.from, recent)
    <3>1. CASE b.from # NoSession /\ ~ b.converged /\ sess[b.from] = "rollover_pending"
      <4>1. recent' = Touch(b.session, older)
        BY <3>1 DEF BindCommits
      <4>2. b.from \in Range(recent)
        BY <2>1, <1>2, <3>1 DEF SessionTypeOK
      <4>3. /\ older \in Seq(Sessions) /\ IsInjective(older)
            /\ Range(older) = Range(recent) \cup {b.from}
        BY <2>1, <1>2, <3>1, TouchMoves DEF SessionTypeOK
      <4> HIDE DEF older
      <4>4. QED  BY <4>1, <4>2, <4>3, TouchMoves
    <3>2. CASE ~ (b.from # NoSession /\ ~ b.converged /\ sess[b.from] = "rollover_pending")
      <4>1. recent' = Touch(b.session, recent)
        BY <3>2 DEF BindCommits
      <4>2. QED  BY <4>1, <2>1, TouchMoves DEF SessionTypeOK
    <3>3. QED  BY <3>1, <3>2
  <2>3. \A t \in Sessions : t \in Range(recent') <=> sess'[t] # "absent"
    <3> TAKE t \in Sessions
    <3>1. CASE t = b.session
      BY <3>1, <2>2
    <3>2. CASE t # b.session
      <4>1. sess'[t] = "absent" <=> sess[t] = "absent"
        BY <3>2, <1>2, <1>4 DEF NoSession, Sessions
      <4>2. QED  BY <4>1, <3>2, <2>1, <2>2 DEF SessionTypeOK
    <3>3. QED  BY <3>1, <3>2
  <2>4. QED
    BY <2>1, <2>2, <2>3 DEF SessionTypeOK, BindCommits, Status
<1>6. UsedAreKnown'
  <2> SUFFICES ASSUME NEW q \in SRuns, srun'[q].session # NoSession
               PROVE  sess'[srun'[q].session] # "absent"
    BY DEF UsedAreKnown
  <2>1. CASE q = b.run
    BY <2>1
  <2>2. CASE q # b.run
    BY <2>2, <1>3, <1>4 DEF SessionInv, UsedAreKnown, SRun, SessionOrNone
  <2>3. QED  BY <2>1, <2>2
<1>7. ReplacedAreRetired'
  <2> SUFFICES ASSUME NEW q \in SRuns, srun'[q].from # NoSession
               PROVE  sess'[srun'[q].from] \in {"rollover_pending", "closed"}
    BY DEF ReplacedAreRetired
  <2>1. srun'[q].from = srun[q].from /\ srun[q].from \in Sessions
    BY <1>1, <1>3 DEF SRun, SessionOrNone
  <2>2. sess[srun[q].from] \in {"rollover_pending", "closed"}
    BY <2>1 DEF SessionInv, ReplacedAreRetired, NoSession, Sessions
  <2>3. QED  BY <2>1, <2>2, <1>4
<1>8. (\A c \in binding : BindingStillHolds(c))'
  <2> SUFFICES ASSUME NEW c \in binding, c # b PROVE BindingStillHolds(c)'
    OBVIOUS
  <2>1. BindingStillHolds(c) /\ c.run \in SRuns /\ c.from \in SessionOrNone
    BY DEF SessionInv, SessionTypeOK
  <2>2. c.run # b.run /\ (b.from # NoSession => c.from # b.from)
    BY DEF SessionInv, BindingsAreApart
  <2>3. c.from # NoSession => /\ c.from \in Sessions
                              /\ sess[c.from] \in {"rollover_pending", "closed"}
    BY <2>1 DEF SessionInv, ReplacedAreRetired, SessionOrNone, BindingStillHolds
  <2>4. c.from # NoSession => sess'[c.from] = sess[c.from]
    BY <2>2, <2>3, <1>4
  <2>5. QED  BY <2>1, <2>2, <2>4 DEF BindingStillHolds
<1>9. BindingsAreApart'
  BY DEF SessionInv, BindingsAreApart
<1>10. \A x \in Sessions : \A q \in ReplacingRuns(x)' :
          \/ q \in ReplacingRuns(x) /\ srun'[q].session = srun[q].session
          \/ q = b.run /\ x = b.from /\ ReplacingRuns(x) = {} /\ sess'[x] = "closed"
  <2> SUFFICES ASSUME NEW x \in Sessions, NEW q \in SRuns, q \in ReplacingRuns(x)'
               PROVE  \/ q \in ReplacingRuns(x) /\ srun'[q].session = srun[q].session
                      \/ /\ q = b.run /\ x = b.from /\ ReplacingRuns(x) = {}
                         /\ sess'[x] = "closed"
    BY DEF ReplacingRuns
  <2>1. /\ srun'[q].from = x /\ srun'[q].session \in Sessions \ {x}
        /\ sess'[srun'[q].session] = "active"
    BY <1>3 DEF ReplacingRuns, SRun, SessionOrNone
  <2>2. CASE q # b.run
    <3>1. srun'[q].session = srun[q].session /\ srun[q].from = x
      BY <2>1, <2>2
    <3>2. sess[srun[q].session] = "active"
      BY <3>1, <2>1, <1>4 DEF SessionInv, UsedAreKnown, Sessions, NoSession
    <3>3. QED  BY <3>1, <3>2, <2>1 DEF ReplacingRuns
  <2>3. CASE q = b.run
    <3>1. ~ b.converged /\ b.from = x /\ srun'[q].session = b.session
      BY <2>1, <2>3 DEF NoSession, Sessions
    <3>2. CASE sess[x] = "closed"
      <4>1. srun[q].session = b.session /\ srun[q].from = x
        BY <3>1, <3>2, <2>3, <1>1 DEF NoSession, Sessions
      <4>2. sess[b.session] = "active"
        BY <4>1, <3>1, <2>1, <2>3, <1>4 DEF SessionInv, UsedAreKnown, Sessions, NoSession
      <4>3. QED  BY <4>1, <4>2, <3>1, <2>1 DEF ReplacingRuns
    <3>3. CASE sess[x] = "rollover_pending"
      <4>1. ReplacingRuns(x) = {}
        BY <3>3 DEF SessionInv, ReplacedIsClosed
      <4>2. sess'[x] = "closed"
        BY <3>1 DEF Sessions, NoSession
      <4>3. QED  BY <4>1, <4>2, <3>1, <2>3
    <3>4. QED  BY <3>1, <3>2, <3>3, <1>2 DEF Sessions, NoSession
  <2>4. QED  BY <2>2, <2>3
<1>11. OneReplacement'
  BY <1>10 DEF SessionInv, OneReplacement
<1>12. ReplacedIsClosed'
  <2> SUFFICES ASSUME NEW x \in Sessions, NEW q \in ReplacingRuns(x)' PROVE sess'[x] = "closed"
    BY DEF ReplacedIsClosed
  <2>1. CASE q \in ReplacingRuns(x)
    BY <2>1, <1>4 DEF SessionInv, ReplacedIsClosed
  <2>2. QED  BY <2>1, <1>10
<1>13. QED
  BY <1>5, <1>6, <1>7, <1>8, <1>9, <1>11, <1>12 DEF SessionInv

-----------------------------------------------------------------------------
(* The theorems.                                                           *)

\* Every step is quiet, a reading of a binding, or a commit of one.
LEMMA StepsOfSessions ==
  ASSUME SessionInv, SessionNext
  PROVE  \/ QuietStep
         \/ \E r \in SRuns, s \in Sessions : BindReads(r, s)
         \/ \E b \in binding : BindCommits(b)
<1>1. ASSUME NEW r \in SRuns, StartSRun(r) PROVE QuietStep
  BY <1>1, StartIsQuiet
<1>2. ASSUME NEW r \in SRuns, FinishSRun(r) PROVE QuietStep
  BY <1>2, FinishIsQuiet
<1>3. ASSUME NEW r \in SRuns, RequestRollover(r) PROVE QuietStep
  BY <1>3, RequestIsQuiet
<1>4. ASSUME NEW r \in SRuns, NEW ask \in SessionOrNone, NEW force \in BOOLEAN,
             ResolveSessionDispatch(r, ask, force)
      PROVE  QuietStep
  BY <1>4, ResolveIsQuiet
<1>5. ASSUME CloseSessions PROVE QuietStep
  BY <1>5, CloseIsQuiet
<1>6. QED  BY <1>1, <1>2, <1>3, <1>4, <1>5 DEF SessionNext

\* What a retired session may become, and what a run told to replace it may use.
RetiredStep ==
    /\ \A s \in Sessions : sess[s] \in {"rollover_pending", "closed"} =>
          sess'[s] \in {"closed", sess[s]}
    /\ \A r \in SRuns : srun[r].from # NoSession /\ srun'[r].session # srun[r].session =>
          srun'[r].session # srun[r].from

\* What a run may be told to resume.
ResumeStep ==
    \A r \in SRuns :
        srun'[r].resume # NoSession /\ srun'[r].resume # srun[r].resume =>
           sess[srun'[r].resume] = "active"

LEMMA SessionStep ==
  ASSUME SessionInv, [SessionNext]_sessionVars
  PROVE  SessionInv' /\ (sessionVars' # sessionVars => RetiredStep /\ ResumeStep)
<1>1. CASE QuietStep
  <2>1. RetiredStep
    BY <1>1 DEF QuietStep, QuietRun, Retires, RetiredStep
  <2>2. ResumeStep
    BY <1>1 DEF QuietStep, QuietRun, ResumeStep
  <2>3. QED  BY <1>1, <2>1, <2>2, QuietStepKeepsInv
<1>2. ASSUME NEW r \in SRuns, NEW s \in Sessions, BindReads(r, s)
      PROVE  SessionInv' /\ RetiredStep /\ ResumeStep
  BY <1>2, BindReadsKeepsInv DEF BindReads, RetiredStep, ResumeStep
<1>3. ASSUME NEW b \in binding, BindCommits(b)
      PROVE  SessionInv' /\ RetiredStep /\ ResumeStep
  <2>1. b.from = srun[b.run].from /\ b.from # b.session
    BY DEF SessionInv, BindingStillHolds
  <2>2. RetiredStep
    <3>1. ASSUME NEW s \in Sessions, sess[s] \in {"rollover_pending", "closed"}
          PROVE  sess'[s] \in {"closed", sess[s]}
      <4>1. CASE s = b.from
        BY <4>1, <1>3, <3>1, BindWrites DEF NoSession, Sessions
      <4>2. CASE s = b.session
        BY <4>2, <1>3, <3>1, BindWrites
      <4>3. CASE s # b.from /\ s # b.session
        BY <4>3, <1>3, BindWrites
      <4>4. QED  BY <4>1, <4>2, <4>3
    <3>2. ASSUME NEW r \in SRuns, srun'[r].session # srun[r].session
          PROVE  srun'[r].session # srun[r].from
      BY <3>2, <2>1, <1>3, BindWrites
    <3>3. QED  BY <3>1, <3>2 DEF RetiredStep
  <2>3. \A r \in SRuns : srun'[r].resume = srun[r].resume
    BY <1>3, BindWrites
  <2>4. ResumeStep
    BY <2>3 DEF ResumeStep
  <2>5. QED  BY <2>2, <2>4, <1>3, BindCommitsKeepsInv
<1>4. CASE UNCHANGED sessionVars
  BY <1>4 DEF sessionVars, SessionInv, SessionTypeOK, UsedAreKnown, ReplacedAreRetired,
     BindingStillHolds, BindingsAreApart, OneReplacement, ReplacedIsClosed, ReplacingRuns
<1>5. QED  BY <1>1, <1>2, <1>3, <1>4, StepsOfSessions

\* In every behaviour bindings may rely on what they checked, and a retired session
\* has at most one live replacement and is closed once it has one.
THEOREM SessionsAreSound == SessionSpec => []SessionInv
<1>1. SessionInv /\ [SessionNext]_sessionVars => SessionInv'
  BY SessionStep
<1>2. QED  BY <1>1, SessionInvInit, PTL DEF SessionSpec

\* A retired session never becomes active again, and a run that was told to replace
\* it is bound to another one.
THEOREM RetiredForGood == SessionSpec => RetiredStaysRetired
<1>1. SessionInv /\ [SessionNext]_sessionVars => [RetiredStep]_sessionVars
  BY SessionStep
<1>2. SessionSpec => [][RetiredStep]_sessionVars
  BY <1>1, SessionsAreSound, PTL DEF SessionSpec
<1>3. QED  BY <1>2 DEF RetiredStaysRetired, RetiredStep

\* A dispatch resumes a session only while it is active.
THEOREM DispatchResumesLive == SessionSpec => ResumesLiveSessions
<1>1. SessionInv /\ [SessionNext]_sessionVars => [ResumeStep]_sessionVars
  BY SessionStep
<1>2. SessionSpec => [][ResumeStep]_sessionVars
  BY <1>1, SessionsAreSound, PTL DEF SessionSpec
<1>3. QED  BY <1>2 DEF ResumesLiveSessions, ResumeStep

\* The server keeps all it promises about provider sessions.
THEOREM SessionsKeepTheirPromise == SessionSpec => SessionsPromise
<1>1. SessionInv => SessionTypeOK /\ OneReplacement /\ ReplacedIsClosed
  BY DEF SessionInv
<1>2. SessionSpec => []SessionTypeOK /\ []OneReplacement /\ []ReplacedIsClosed
  BY <1>1, SessionsAreSound, PTL
<1>3. QED  BY <1>2, RetiredForGood, DispatchResumesLive DEF SessionsPromise
===============================================================================
