------------------------- MODULE IngestionRunProofs -------------------------
(***************************************************************************)
(* Proofs about IngestionRun for every set of targets, texts, workers and  *)
(* ceilings, every price and every number of attempts: the ledger of a run *)
(* is exact and never exceeds the ceiling, its rows stay consistent, each  *)
(* reservation buys one call, and only current results are published.      *)
(***************************************************************************)
EXTENDS IngestionRun, FiniteSetTheorems, TLAPS

(* The laws of sums of money (module Money). *)

\* The units of a sum, element by element.
LEMMA UnitsMember ==
  ASSUME NEW S, NEW f, NEW u
  PROVE  u \in Units(f, S) <=> \E x \in S : \E i \in 1..f[x] : u = <<x, i>>
BY DEF Units

\* One payment is worth its amount.
LEMMA TotalSingleton ==
  ASSUME NEW x, NEW f, f[x] \in Nat
  PROVE  /\ IsFiniteSet({x} \X (1..f[x]))
         /\ Total(f, {x}) = f[x]
<1>1. Units(f, {x}) = {x} \X (1..f[x])
  BY DEF Units
<1>2. IsFiniteSet({x}) /\ Cardinality({x}) = 1
  BY FS_Singleton
<1>3. IsFiniteSet(1..f[x]) /\ Cardinality(1..f[x]) = f[x]
  BY FS_Interval
<1>4. /\ IsFiniteSet({x} \X (1..f[x]))
      /\ Cardinality({x} \X (1..f[x])) = 1 * f[x]
  BY <1>2, <1>3, FS_Product
<1>5. QED
  BY <1>1, <1>4 DEF Total

\* A sum over finitely many payments has finitely many units.
LEMMA UnitsFinite ==
  ASSUME NEW S, IsFiniteSet(S), NEW f, \A x \in S : f[x] \in Nat
  PROVE  IsFiniteSet(Units(f, S))
<1> DEFINE g == [x \in S |-> {x} \X (1..f[x])]
           I == {{x} \X (1..f[x]) : x \in S}
<1>1. g \in Surjection(S, I)
  BY DEF Surjection
<1>2. IsFiniteSet(I)
  <2> HIDE DEF g, I
  <2> QED BY <1>1, FS_Surjection
<1>3. \A T \in I : IsFiniteSet(T)
  BY TotalSingleton
<1>4. QED
  <2> HIDE DEF I
  <2>1. IsFiniteSet(UNION I)
    BY <1>2, <1>3, FS_UNION
  <2> QED BY <2>1 DEF Units, I

\* A sum over finitely many payments is a natural number.
LEMMA TotalType ==
  ASSUME NEW S, IsFiniteSet(S), NEW f, \A x \in S : f[x] \in Nat
  PROVE  Total(f, S) \in Nat
BY UnitsFinite, FS_CardinalityType DEF Total

\* The empty sum is zero.
LEMMA TotalEmpty ==
  ASSUME NEW f
  PROVE  Total(f, {}) = 0
<1>1. Units(f, {}) = {}
  BY DEF Units
<1>2. QED
  BY <1>1, FS_EmptySet DEF Total

\* Payments of nothing sum to nothing.
LEMMA TotalZero ==
  ASSUME NEW S, NEW f, \A x \in S : f[x] = 0
  PROVE  Total(f, S) = 0
<1>1. Units(f, S) = {}
  BY DEF Units
<1>2. QED
  BY <1>1, FS_EmptySet DEF Total

\* Sums over disjoint sets add up.
LEMMA TotalUnion ==
  ASSUME NEW S, IsFiniteSet(S), NEW T, IsFiniteSet(T), S \cap T = {},
         NEW f, \A x \in S \cup T : f[x] \in Nat
  PROVE  Total(f, S \cup T) = Total(f, S) + Total(f, T)
<1>1. Units(f, S \cup T) = Units(f, S) \cup Units(f, T)
  BY DEF Units
<1>2. Units(f, S) \cap Units(f, T) = {}
  BY UnitsMember
<1>3. IsFiniteSet(Units(f, S)) /\ IsFiniteSet(Units(f, T))
  BY UnitsFinite
<1>4. Cardinality(Units(f, S) \cup Units(f, T)) =
        Cardinality(Units(f, S)) + Cardinality(Units(f, T))
          - Cardinality(Units(f, S) \cap Units(f, T))
  BY <1>3, FS_Union
<1>5. Cardinality(Units(f, S)) \in Nat /\ Cardinality(Units(f, T)) \in Nat
  BY <1>3, FS_CardinalityType
<1>6. Cardinality(Units(f, S) \cap Units(f, T)) = 0
  BY <1>2, FS_EmptySet
<1>7. Cardinality(Units(f, S) \cup Units(f, T)) =
        Cardinality(Units(f, S)) + Cardinality(Units(f, T))
  BY <1>4, <1>5, <1>6
<1>8. QED
  BY <1>1, <1>7, Zenon DEF Total

\* A part of a set of payments, at amounts no larger, sums to no more.
LEMMA TotalMonotone ==
  ASSUME NEW T, IsFiniteSet(T), NEW S \in SUBSET T,
         NEW f, NEW g, \A x \in T : f[x] \in Nat /\ g[x] \in Nat,
         \A x \in S : f[x] <= g[x]
  PROVE  Total(f, S) <= Total(g, T)
<1>1. Units(f, S) \subseteq Units(g, T)
  <2> SUFFICES ASSUME NEW u \in Units(f, S) PROVE u \in Units(g, T)
    OBVIOUS
  <2>1. PICK x \in S : \E i \in 1..f[x] : u = <<x, i>>
    BY UnitsMember
  <2>2. PICK i \in 1..f[x] : u = <<x, i>>
    BY <2>1
  <2>3. x \in T /\ i \in 1..g[x]
    OBVIOUS
  <2> QED BY <2>2, <2>3, UnitsMember
<1>2. IsFiniteSet(Units(g, T))
  BY UnitsFinite
<1>3. QED
  BY <1>1, <1>2, FS_Subset DEF Total

\* Only the amounts of the set count.
LEMMA TotalSame ==
  ASSUME NEW S, NEW f, NEW g, \A x \in S : f[x] = g[x]
  PROVE  Total(f, S) = Total(g, S)
<1>1. Units(f, S) = Units(g, S)
  BY DEF Units
<1>2. QED
  BY <1>1 DEF Total

\* Taking one payment out of a set, or adding one to it.
LEMMA TotalRemove ==
  ASSUME NEW S, IsFiniteSet(S), NEW f, \A x \in S : f[x] \in Nat, NEW y \in S
  PROVE  Total(f, S \ {y}) = Total(f, S) - f[y]
<1>1. IsFiniteSet(S \ {y}) /\ IsFiniteSet({y})
  BY FS_RemoveElement, FS_Singleton
<1>2. Total(f, (S \ {y}) \cup {y}) = Total(f, S \ {y}) + Total(f, {y})
  BY <1>1, TotalUnion
<1>3. (S \ {y}) \cup {y} = S
  OBVIOUS
<1>4. Total(f, {y}) = f[y] /\ f[y] \in Nat
  BY TotalSingleton
<1>5. Total(f, S \ {y}) \in Nat
  BY <1>1, TotalType
<1>6. Total(f, S) = Total(f, S \ {y}) + f[y]
  BY <1>2, <1>3, <1>4
<1>7. QED
  BY <1>4, <1>5, <1>6

\* Adding one payment to a set adds its amount to the sum.
LEMMA TotalAdd ==
  ASSUME NEW S, IsFiniteSet(S), NEW f, NEW y, y \notin S,
         \A x \in S \cup {y} : f[x] \in Nat
  PROVE  Total(f, S \cup {y}) = Total(f, S) + f[y]
<1>1. IsFiniteSet({y})
  BY FS_Singleton
<1>2. Total(f, S \cup {y}) = Total(f, S) + Total(f, {y})
  BY <1>1, TotalUnion
<1>3. QED
  BY <1>2, TotalSingleton

-----------------------------------------------------------------------------

(***************************************************************************)
(* The inductive invariant.  Beside the ledger it needs to know that an    *)
(* attempt has a row only once it is counted (so a fresh reservation was   *)
(* not held before), and that what a worker executes was claimed (so what  *)
(* it settles is held) and answered within the bound that was reserved.    *)
(***************************************************************************)
AttemptsCounted == \A r \in Res : resStatus[r] # None => r[2] <= attempts[r[1]]

JobsClaimed ==
  \A w \in Worker : pc[w] # "idle" =>
    /\ job[w] \in Res
    /\ resStatus[job[w]] \in {"STARTED", "UNCERTAIN", "SETTLED"}
    /\ pc[w] = "answered" => receipt[w] <= Amount[job[w]]

LedgerInv ==
  /\ TypeOK
  /\ AttemptsCounted
  /\ JobsClaimed
  /\ LedgerBalanced
  /\ WithinCeiling

SettledRes == {r \in Res : resStatus[r] = "SETTLED"}

USE NoneAssumption, CostAssumption, AttemptsAssumption, CeilingsAssumption

-----------------------------------------------------------------------------
(* Facts about the constants *)

\* There are finitely many operations and reservations.
LEMMA ResFinite == IsFiniteSet(Op) /\ IsFiniteSet(Res) /\ \A S \in SUBSET Res : IsFiniteSet(S)
<1>1. IsFiniteSet(Op)
  BY FiniteAssumption, FS_Product DEF Op
<1>2. IsFiniteSet(Attempt)
  BY FS_Interval DEF Attempt
<1>3. IsFiniteSet(Res)
  BY <1>1, <1>2, FS_Product DEF Res
<1>4. QED
  BY <1>1, <1>3, FS_Subset

\* Every reservation is for a whole number of the smallest unit of money.
LEMMA AmountType == Amount \in [Res -> Nat]
BY DEF Amount, Res, Op

\* Every sum over reservations is a natural number.
LEMMA ResSums ==
  ASSUME NEW S \in SUBSET Res
  PROVE  Total(Amount, S) \in Nat
BY ResFinite, AmountType, TotalType

\* A finite non-empty set has an element of the highest rank.
LEMMA LastRanked ==
  ASSUME NEW A, IsFiniteSet(A), A # {}, NEW c, \A x \in A : c[x] \in Nat
  PROVE  \E x \in A : \A y \in A : c[y] <= c[x]
<1> DEFINE Above(x) == {y \in A : c[y] > c[x]}
           F == {Above(x) : x \in A}
<1>1. FiniteSubsetsOf(A) = SUBSET A
  BY FS_FiniteSubsetsOfFinite
<1>2. IsWellFoundedOn(StrictSubsetOrdering(A), SUBSET A)
  BY <1>1, FS_StrictSubsetOrderingWellFounded
<1>3. F \subseteq SUBSET A /\ F # {}
  <2>1. PICK x \in A : TRUE
    OBVIOUS
  <2>2. Above(x) \in F
    BY <2>1
  <2> QED BY <2>2
<1>4. PICK T \in F : \A U \in F : ~(<<U, T>> \in StrictSubsetOrdering(A))
  <2> HIDE DEF F
  <2> QED BY <1>2, <1>3, WFMin
<1>5. PICK x \in A : T = Above(x)
  BY <1>4
<1>6. SUFFICES ASSUME NEW y \in A, ~(c[y] <= c[x]) PROVE FALSE
  OBVIOUS
<1>7. Above(y) \subseteq Above(x) /\ y \in Above(x) /\ y \notin Above(y)
  BY <1>6
<1>8. <<Above(y), T>> \in StrictSubsetOrdering(A)
  BY <1>5, <1>7 DEF StrictSubsetOrdering
<1>9. QED
  BY <1>4, <1>8

-----------------------------------------------------------------------------
(* Admission *)

\* What is admitted fits, all of it together, in the free allowance.
LEMMA AdmittedFits ==
  ASSUME TypeOK, NEW E \in SUBSET Op, \A o \in E : attempts[o] < MaxAttempts,
         NEW free \in Nat
  PROVE  /\ {NextRes(o) : o \in Affordable(E, free)} \subseteq Res
         /\ Total(Amount, {NextRes(o) : o \in Affordable(E, free)}) <= free
<1> DEFINE A == Affordable(E, free)
           fresh == {NextRes(o) : o \in A}
<1>1. \A o \in E : NextRes(o) \in Res
  BY DEF TypeOK, NextRes, Res, Attempt
<1>2. A \subseteq E /\ fresh \subseteq Res
  BY <1>1 DEF Affordable
<1>3. CASE A = {}
  <2>1. fresh = {}
    BY <1>3
  <2> QED BY <1>2, <2>1, TotalEmpty
<1>4. CASE A # {}
  <2>1. IsFiniteSet(A)
    BY <1>2, ResFinite, FS_Subset
  <2>2. \A o \in A : created[o] \in Nat
    BY <1>2 DEF TypeOK
  <2>3. PICK o \in A : \A p \in A : created[p] <= created[o]
    <3> HIDE DEF A
    <3> QED BY <1>4, <2>1, <2>2, LastRanked
  <2> DEFINE ahead == {NextRes(p) : p \in Ahead(E, o)}
  <2>4. fresh \subseteq ahead /\ ahead \subseteq Res
    BY <1>1, <1>2, <2>3 DEF Ahead
  <2>5. Total(Amount, ahead) <= free
    BY DEF Affordable
  <2>6. Total(Amount, fresh) <= Total(Amount, ahead)
    <3> HIDE DEF fresh, ahead
    <3>1. IsFiniteSet(ahead) /\ \A r \in ahead : Amount[r] \in Nat
      BY <2>4, ResFinite, AmountType
    <3>2. \A r \in fresh : Amount[r] <= Amount[r]
      BY <2>4, <3>1
    <3> QED BY <2>4, <3>1, <3>2, TotalMonotone
  <2>7. Total(Amount, fresh) \in Nat /\ Total(Amount, ahead) \in Nat
    BY <1>2, <2>4, ResSums
  <2> HIDE DEF fresh, ahead
  <2> QED BY <1>2, <2>5, <2>6, <2>7 DEF fresh
<1>5. QED
  BY <1>3, <1>4

\* What an admission sweep is handed: a subset of the operations, well-formed
\* rows and the sum they hold, within the limit.
SweepReady(W, s, os, rs, held, limit) ==
  /\ W \in SUBSET Op
  /\ s \in RunStatus
  /\ os \in [Op -> OperationStatus \cup {None}]
  /\ rs \in [Res -> ReservationStatus \cup {None}]
  /\ \A r \in Res : rs[r] # None => r[2] <= attempts[r[1]]
  /\ held \in Nat
  /\ held = Total(Amount, {r \in Res : rs[r] \in Held})
  /\ limit \in Nat
  /\ accounted + held <= limit

\* What it leaves behind: well-formed rows, the sum they hold, still within the
\* limit, and every claimed or settled reservation as it was.
Swept(rs, limit) ==
  /\ runStatus' \in RunStatus
  /\ opStatus' \in [Op -> OperationStatus \cup {None}]
  /\ attempts' \in [Op -> 0..MaxAttempts]
  /\ resStatus' \in [Res -> ReservationStatus \cup {None}]
  /\ AttemptsCounted'
  /\ reserved' \in Nat
  /\ reserved' = Total(Amount, HeldRes')
  /\ accounted + reserved' <= limit
  /\ issued' \in [Res -> Nat]
  /\ SettledRes' = {r \in Res : rs[r] = "SETTLED"}
  /\ \A r \in Res : rs[r] \in {"STARTED", "UNCERTAIN", "SETTLED"} =>
                      resStatus'[r] = rs[r]

\* What the sweep of _admit_waiting does to the ledger: the rows it admits become
\* held, their amounts are added to the reserved sum, and the rest is as it was.
LEMMA AdmitStep ==
  ASSUME NEW W, NEW s, NEW os, NEW rs, NEW held, NEW limit,
         TypeOK, SweepReady(W, s, os, rs, held, limit), Admit(W, s, os, rs, held, limit)
  PROVE  Swept(rs, limit)
<1> USE DEF SweepReady
<1> DEFINE waiting  == {o \in W : s = "ACTIVE" /\ os[o] = "WAITING"}
           eligible == {o \in waiting : approved /\ attempts[o] < MaxAttempts}
           free     == limit - accounted - held
           admitted == Affordable(eligible, free)
           fresh    == {NextRes(o) : o \in admitted}
           old      == {r \in Res : rs[r] \in Held}
<1>1. free \in Nat
  BY DEF TypeOK
<1>2. eligible \in SUBSET Op /\ \A o \in eligible : attempts[o] < MaxAttempts
  OBVIOUS
<1>3. fresh \subseteq Res /\ Total(Amount, fresh) <= free
  <2> HIDE DEF eligible, free
  <2> QED BY <1>1, <1>2, AdmittedFits
<1>4. admitted \subseteq eligible
  BY DEF Affordable
<1>5. \A o \in admitted : /\ o \in Op /\ attempts[o] < MaxAttempts
                          /\ NextRes(o) \in Res /\ rs[NextRes(o)] = None
  <2> SUFFICES ASSUME NEW o \in admitted
               PROVE  /\ o \in Op /\ attempts[o] < MaxAttempts
                      /\ NextRes(o) \in Res /\ rs[NextRes(o)] = None
    OBVIOUS
  <2>1. o \in Op /\ attempts[o] < MaxAttempts
    BY <1>4
  <2>2. NextRes(o) \in Res
    BY <1>3
  <2>3. ~(NextRes(o)[2] <= attempts[NextRes(o)[1]])
    BY <2>1 DEF NextRes, TypeOK
  <2> QED BY <2>1, <2>2, <2>3
<1> HIDE DEF admitted, eligible, free
<1>6. /\ runStatus' = IF waiting # {} /\ ~approved THEN Violated(s)
                      ELSE IF admitted # eligible THEN "BUDGET_EXHAUSTED" ELSE s
      /\ opStatus' = [o \in Op |-> IF o \in admitted THEN "QUEUED" ELSE os[o]]
      /\ attempts' = [o \in Op |-> IF o \in admitted THEN attempts[o] + 1 ELSE attempts[o]]
      /\ resStatus' = [r \in Res |-> IF r \in fresh THEN "RESERVED" ELSE rs[r]]
      /\ reserved' = held + Total(Amount, fresh)
  BY DEF Admit, admitted, eligible, free
<1>7. runStatus' \in RunStatus
  BY <1>6 DEF Violated, RunStatus
<1>8. /\ opStatus' \in [Op -> OperationStatus \cup {None}]
      /\ resStatus' \in [Res -> ReservationStatus \cup {None}]
  BY <1>6 DEF OperationStatus, ReservationStatus
<1>9. attempts' \in [Op -> 0..MaxAttempts]
  BY <1>5, <1>6 DEF TypeOK
<1>10. \A r \in fresh : rs[r] = None
  BY <1>5
<1>11. fresh \cap old = {} /\ HeldRes' = old \cup fresh
  BY <1>3, <1>6, <1>10 DEF HeldRes, Held, ReservationStatus
<1>12. Total(Amount, old \cup fresh) = Total(Amount, old) + Total(Amount, fresh)
  <2> HIDE DEF fresh, old
  <2>1. old \subseteq Res
    BY DEF old
  <2>2. IsFiniteSet(old) /\ IsFiniteSet(fresh) /\ \A r \in old \cup fresh : Amount[r] \in Nat
    BY <1>3, <2>1, ResFinite, AmountType
  <2> QED BY <1>11, <2>2, TotalUnion
<1>13. Total(Amount, fresh) \in Nat
  BY <1>3, ResSums
<1>14. reserved' \in Nat /\ accounted + reserved' <= limit
  <2> HIDE DEF fresh
  <2> QED BY <1>1, <1>3, <1>6, <1>13 DEF TypeOK, free
<1>15. reserved' = Total(Amount, HeldRes')
  <2> HIDE DEF fresh
  <2> QED BY <1>6, <1>11, <1>12
<1>16. AttemptsCounted'
  <2> SUFFICES ASSUME NEW r \in Res, resStatus'[r] # None
               PROVE  r[2] <= attempts'[r[1]]
    BY DEF AttemptsCounted
  <2>1. r[1] \in Op /\ r[2] \in Nat
    BY DEF Res, Attempt
  <2>2. CASE r \in fresh
    <3>1. PICK o \in admitted : r = NextRes(o)
      BY <2>2
    <3>2. r[1] = o /\ r[2] = attempts[o] + 1
      BY <3>1 DEF NextRes
    <3> QED BY <1>5, <1>6, <3>2, <2>1 DEF TypeOK
  <2>3. CASE r \notin fresh
    <3>1. r[2] <= attempts[r[1]]
      BY <1>6, <2>3
    <3>2. attempts[r[1]] \in Nat /\ attempts'[r[1]] >= attempts[r[1]]
      BY <1>6, <2>1 DEF TypeOK
    <3>3. attempts'[r[1]] \in Nat
      BY <1>9, <2>1
    <3> QED BY <2>1, <3>1, <3>2, <3>3
  <2> QED BY <2>2, <2>3
<1>17. SettledRes' = {r \in Res : rs[r] = "SETTLED"}
  BY <1>6, <1>10 DEF SettledRes, ReservationStatus
<1>18. \A r \in Res : rs[r] \in {"STARTED", "UNCERTAIN", "SETTLED"} => resStatus'[r] = rs[r]
  BY <1>6, <1>10 DEF ReservationStatus
<1>19. issued' \in [Res -> Nat]
  <2> DEFINE rows == {x \in Res : resStatus[x] # None}
  <2>1. Cardinality(rows) \in Nat
    BY ResFinite, FS_CardinalityType
  <2>2. \A o \in Op : Cardinality(Ahead(admitted, o)) \in Nat
    <3> SUFFICES ASSUME NEW o \in Op PROVE Cardinality(Ahead(admitted, o)) \in Nat
      OBVIOUS
    <3>1. Ahead(admitted, o) \subseteq Op
      BY <1>5 DEF Ahead
    <3> QED BY <3>1, ResFinite, FS_Subset, FS_CardinalityType
  <2>3. issued' = [r \in Res |-> IF r \in fresh
                                 THEN Cardinality(rows) + Cardinality(Ahead(admitted, r[1]))
                                 ELSE issued[r]]
    BY DEF Admit, admitted, eligible, free
  <2> HIDE DEF rows, fresh
  <2>4. \A r \in Res : r[1] \in Op
    BY DEF Res
  <2> QED BY <2>1, <2>2, <2>3, <2>4 DEF TypeOK
<1>20. QED
  BY <1>7, <1>8, <1>9, <1>14, <1>15, <1>16, <1>17, <1>18, <1>19 DEF Swept

-----------------------------------------------------------------------------
(* One lemma per kind of step *)

Claimed == {"STARTED", "UNCERTAIN", "SETTLED"}

\* A transaction that ends in an admission sweep keeps the invariant when what
\* it did before the sweep did: the rows it hands to the sweep hold exactly
\* the sum it hands over, and nothing claimed or settled is touched.
LEMMA AdmitPreserves ==
  ASSUME LedgerInv,
         NEW W, NEW s, NEW os, NEW rs, NEW held, NEW limit,
         SweepReady(W, s, os, rs, held, limit), Admit(W, s, os, rs, held, limit),
         {r \in Res : rs[r] = "SETTLED"} = SettledRes,
         \A r \in Res : resStatus[r] \in Claimed => rs[r] \in Claimed,
         ceiling' = limit, created' \in [Op -> Nat], queue' \subseteq Res,
         routing' \subseteq Op,
         UNCHANGED <<accounted, settled, text, access, vector, approved, workerVars, historyVars>>
  PROVE  LedgerInv'
<1> USE DEF LedgerInv
<1>1. Swept(rs, limit)
  BY AdmitStep
<1> USE DEF Swept, SweepReady
<1>2. TypeOK'
  BY <1>1 DEF TypeOK, workerVars, historyVars
<1>3. JobsClaimed'
  <2> SUFFICES ASSUME NEW w \in Worker, pc'[w] # "idle"
               PROVE  /\ job'[w] \in Res
                      /\ resStatus'[job'[w]] \in Claimed
                      /\ pc'[w] = "answered" => receipt'[w] <= Amount[job'[w]]
    BY DEF JobsClaimed, Claimed
  <2>1. pc' = pc /\ job' = job /\ receipt' = receipt
    BY DEF workerVars
  <2>2. /\ job[w] \in Res /\ resStatus[job[w]] \in Claimed
        /\ pc[w] = "answered" => receipt[w] <= Amount[job[w]]
    BY <2>1 DEF JobsClaimed, Claimed
  <2>3. resStatus'[job[w]] = rs[job[w]] /\ rs[job[w]] \in Claimed
    BY <1>1, <2>2 DEF Claimed
  <2> QED BY <2>1, <2>2, <2>3
<1>4. LedgerBalanced'
  <2>1. accounted = Total(settled, SettledRes)
    BY DEF LedgerBalanced, SettledRes
  <2>2. SettledRes' = SettledRes
    BY <1>1
  <2>3. accounted' = Total(settled', SettledRes')
    BY <2>1, <2>2
  <2> QED BY <1>1, <2>3 DEF LedgerBalanced, SettledRes
<1>5. WithinCeiling'
  BY <1>1 DEF WithinCeiling
<1>6. QED
  BY <1>1, <1>2, <1>3, <1>4, <1>5

\* Releasing the reservations never claimed of some operations takes exactly
\* their amounts out of the reserved sum.
LEMMA Released ==
  ASSUME LedgerInv, NEW ops \in SUBSET Op
  PROVE  /\ ResCancelled(ops) \in [Res -> ReservationStatus \cup {None}]
         /\ \A r \in Res : ResCancelled(ops)[r] # None => r[2] <= attempts[r[1]]
         /\ HeldAfterRelease(ops) \in Nat
         /\ HeldAfterRelease(ops) = Total(Amount, {r \in Res : ResCancelled(ops)[r] \in Held})
         /\ accounted + HeldAfterRelease(ops) <= ceiling
         /\ {r \in Res : ResCancelled(ops)[r] = "SETTLED"} = SettledRes
         /\ \A r \in Res : resStatus[r] \in Claimed => ResCancelled(ops)[r] = resStatus[r]
<1> USE DEF LedgerInv
<1> DEFINE rest == {r \in Res : ResCancelled(ops)[r] \in Held}
<1>1. /\ ResCancelled(ops) \in [Res -> ReservationStatus \cup {None}]
      /\ \A r \in Res : ResCancelled(ops)[r] =
                          IF r \in Unused(ops) THEN "CANCELLED" ELSE resStatus[r]
  BY DEF ResCancelled, ReservationStatus, TypeOK
<1>2. Unused(ops) \subseteq HeldRes /\ \A r \in Unused(ops) : resStatus[r] = "RESERVED"
  BY DEF Unused, HeldRes, Held
<1>3. rest \cap Unused(ops) = {} /\ HeldRes = rest \cup Unused(ops)
  BY <1>1, <1>2 DEF HeldRes, Held
<1>4. Total(Amount, HeldRes) = Total(Amount, rest) + Total(Amount, Unused(ops))
  <2>1. rest \subseteq Res /\ Unused(ops) \subseteq Res
    BY DEF Unused
  <2> HIDE DEF rest
  <2>2. /\ IsFiniteSet(rest) /\ IsFiniteSet(Unused(ops))
        /\ \A r \in rest \cup Unused(ops) : Amount[r] \in Nat
    BY <2>1, ResFinite, AmountType
  <2> QED BY <1>3, <2>2, TotalUnion
<1>5. Total(Amount, rest) \in Nat /\ Total(Amount, Unused(ops)) \in Nat
  BY ResSums DEF Unused
<1>6. /\ HeldAfterRelease(ops) = Total(Amount, rest)
      /\ accounted + HeldAfterRelease(ops) <= ceiling
  <2> HIDE DEF rest
  <2> QED BY <1>4, <1>5 DEF HeldAfterRelease, LedgerBalanced, WithinCeiling, TypeOK
<1>7. {r \in Res : ResCancelled(ops)[r] = "SETTLED"} = SettledRes
  BY <1>1, <1>2 DEF SettledRes
<1>8. \A r \in Res : resStatus[r] \in Claimed => ResCancelled(ops)[r] = resStatus[r]
  BY <1>1, <1>2 DEF Claimed
<1>9. \A r \in Res : ResCancelled(ops)[r] # None => r[2] <= attempts[r[1]]
  BY <1>1, <1>2 DEF AttemptsCounted, ReservationStatus
<1>10. QED
  BY <1>1, <1>5, <1>6, <1>7, <1>8, <1>9

\* A step that leaves the ledger alone and every reservation held, settled or
\* neither, as it was, needs only its types and jobs looked at.
LEMMA LedgerUntouched ==
  ASSUME LedgerInv, TypeOK', JobsClaimed',
         HeldRes' = HeldRes, SettledRes' = SettledRes,
         \A r \in Res : resStatus'[r] # None => resStatus[r] # None,
         UNCHANGED <<ceiling, accounted, reserved, attempts, settled>>
  PROVE  LedgerInv'
<1>1. AttemptsCounted'
  BY DEF LedgerInv, AttemptsCounted
<1>2. LedgerBalanced' /\ WithinCeiling'
  BY DEF LedgerInv, LedgerBalanced, WithinCeiling, SettledRes
<1>3. QED
  BY <1>1, <1>2 DEF LedgerInv

-----------------------------------------------------------------------------
(* The invariant is inductive *)

\* A new run, without operations, satisfies the invariant.
LEMMA LedgerInit == Init => LedgerInv
<1> SUFFICES ASSUME Init PROVE LedgerInv
  OBVIOUS
<1> USE DEF Init
<1>1. TypeOK
  BY DEF TypeOK, RunStatus, Attempt, Access
<1>2. HeldRes = {} /\ {r \in Res : resStatus[r] = "SETTLED"} = {}
  BY DEF HeldRes, Held, ReservationStatus
<1>3. LedgerBalanced
  BY <1>2, TotalEmpty DEF LedgerBalanced
<1>4. WithinCeiling
  BY DEF WithinCeiling
<1>5. AttemptsCounted /\ JobsClaimed
  BY DEF AttemptsCounted, JobsClaimed
<1>6. QED
  BY <1>1, <1>3, <1>4, <1>5 DEF LedgerInv

\* The rows as they are can always be handed to a sweep.
LEMMA SweepAsIs ==
  ASSUME LedgerInv, NEW W \in SUBSET Op, NEW s \in RunStatus,
         NEW os \in [Op -> OperationStatus \cup {None}],
         NEW limit \in Nat, limit >= ceiling
  PROVE  SweepReady(W, s, os, resStatus, reserved, limit)
BY DEF SweepReady, LedgerInv, TypeOK, AttemptsCounted, LedgerBalanced, HeldRes, WithinCeiling

\* The transaction of route_embedding keeps the invariant.
LEMMA RouteStep ==
  ASSUME LedgerInv, NEW o \in Op, Route(o)
  PROVE  LedgerInv'
<1> DEFINE os == IF opStatus[o] = None THEN [opStatus EXCEPT ![o] = "WAITING"] ELSE opStatus
<1>1. TypeOK
  BY DEF LedgerInv
<1>2. routing' \subseteq Op
  BY <1>1 DEF Route, TypeOK
<1>3. os \in [Op -> OperationStatus \cup {None}]
  BY <1>1 DEF TypeOK, OperationStatus
<1>4. NewRank \in Nat
  <2>1. IsFiniteSet({p \in Op : opStatus[p] # None})
    BY ResFinite, FS_Subset
  <2> QED BY <2>1, FS_CardinalityType DEF NewRank
<1>5. created' \in [Op -> Nat]
  BY <1>1, <1>4 DEF Route, TypeOK
<1>6. Admit({o}, runStatus, os, resStatus, reserved, ceiling)
  BY DEF Route
<1>7. SweepReady({o}, runStatus, os, resStatus, reserved, ceiling)
  <2>1. {o} \in SUBSET Op
    OBVIOUS
  <2> HIDE DEF os
  <2> QED BY <1>1, <1>3, <2>1, SweepAsIs DEF TypeOK
<1>8. queue' \subseteq Res
  BY <1>1 DEF Route, Nudge, TypeOK
<1>9. /\ ceiling' = ceiling
      /\ UNCHANGED <<accounted, settled, text, access, vector, approved, workerVars, historyVars>>
  BY DEF Route
<1>10. {r \in Res : resStatus[r] = "SETTLED"} = SettledRes
  BY DEF SettledRes
<1>11. QED
  <2> HIDE DEF os
  <2> QED BY <1>2, <1>5, <1>6, <1>7, <1>8, <1>9, <1>10, AdmitPreserves

\* Resuming a run, with or without more budget, keeps the invariant.
LEMMA ResumeStep ==
  ASSUME LedgerInv, Resume
  PROVE  LedgerInv'
<1>1. TypeOK
  BY DEF LedgerInv
<1>2. PICK c \in Ceilings \cup {ceiling} :
        /\ c >= ceiling /\ ceiling' = c
        /\ Admit(Op, "ACTIVE", opStatus, resStatus, reserved, c)
  BY DEF Resume
<1>3. c \in Nat
  BY <1>1 DEF TypeOK
<1>4. SweepReady(Op, "ACTIVE", opStatus, resStatus, reserved, c)
  BY <1>1, <1>2, <1>3, SweepAsIs DEF TypeOK, RunStatus
<1>5. /\ queue' \subseteq Res /\ created' \in [Op -> Nat] /\ routing' \subseteq Op
      /\ UNCHANGED <<accounted, settled, text, access, vector, approved, workerVars, historyVars>>
  BY <1>1 DEF Resume, Redispatch, Nudge, ControlFrame, TypeOK, targetVars
<1>6. {r \in Res : resStatus[r] = "SETTLED"} = SettledRes
  BY DEF SettledRes
<1>7. QED
  BY <1>2, <1>4, <1>5, <1>6, AdmitPreserves

\* Cancelling an operation gives back what never reached the provider.
LEMMA CancelOperationStep ==
  ASSUME LedgerInv, NEW o \in Op, CancelOperation(o)
  PROVE  LedgerInv'
<1>1. TypeOK
  BY DEF LedgerInv
<1> DEFINE os == OpsCancelled({o})
           rs == ResCancelled({o})
           held == HeldAfterRelease({o})
<1>2. os \in [Op -> OperationStatus \cup {None}]
  BY <1>1 DEF OpsCancelled, OperationStatus, TypeOK
<1>3. SweepReady(Op, runStatus, os, rs, held, ceiling)
  <2>1. {o} \in SUBSET Op
    OBVIOUS
  <2> HIDE DEF os
  <2> QED BY <1>1, <1>2, <2>1, Released DEF SweepReady, TypeOK
<1>4. /\ {r \in Res : rs[r] = "SETTLED"} = SettledRes
      /\ \A r \in Res : resStatus[r] \in Claimed => rs[r] \in Claimed
  <2>1. {o} \in SUBSET Op
    OBVIOUS
  <2> QED BY <2>1, Released
<1>5. Admit(Op, runStatus, os, rs, held, ceiling) /\ ceiling' = ceiling
  BY DEF CancelOperation
<1>6. /\ queue' \subseteq Res /\ created' \in [Op -> Nat] /\ routing' \subseteq Op
      /\ UNCHANGED <<accounted, settled, text, access, vector, approved, workerVars, historyVars>>
  BY <1>1 DEF CancelOperation, Redispatch, Nudge, ControlFrame, TypeOK, targetVars
<1>7. QED
  <2> HIDE DEF os, rs, held
  <2> QED BY <1>3, <1>4, <1>5, <1>6, AdmitPreserves

\* Retrying an operation leaves a started attempt charged and admits a new one.
LEMMA RetryOperationStep ==
  ASSUME LedgerInv, NEW o \in Op, RetryOperation(o)
  PROVE  LedgerInv'
<1>1. TypeOK
  BY DEF LedgerInv
<1> DEFINE os == [opStatus EXCEPT ![o] = "WAITING"]
           rs == Abandoned(o)
<1>2. os \in [Op -> OperationStatus \cup {None}]
  BY <1>1 DEF OperationStatus, TypeOK
<1>3. /\ rs \in [Res -> ReservationStatus \cup {None}]
      /\ \A r \in Res : rs[r] = resStatus[r] \/ (resStatus[r] = "STARTED" /\ rs[r] = "UNCERTAIN")
  BY <1>1 DEF Abandoned, ReservationStatus, TypeOK
<1>4. /\ {r \in Res : rs[r] \in Held} = HeldRes
      /\ {r \in Res : rs[r] = "SETTLED"} = SettledRes
      /\ \A r \in Res : resStatus[r] \in Claimed => rs[r] \in Claimed
      /\ \A r \in Res : rs[r] # None => resStatus[r] # None
  <2> HIDE DEF rs
  <2> QED BY <1>3 DEF HeldRes, SettledRes, Held, Claimed, ReservationStatus
<1>5. SweepReady(Op, runStatus, os, rs, reserved, ceiling)
  <2> HIDE DEF os, rs
  <2> QED BY <1>1, <1>2, <1>3, <1>4
          DEF SweepReady, LedgerInv, TypeOK, AttemptsCounted, LedgerBalanced, WithinCeiling
<1>6. Admit(Op, runStatus, os, rs, reserved, ceiling) /\ ceiling' = ceiling
  BY DEF RetryOperation
<1>7. /\ queue' \subseteq Res /\ created' \in [Op -> Nat] /\ routing' \subseteq Op
      /\ UNCHANGED <<accounted, settled, text, access, vector, approved, workerVars, historyVars>>
  BY <1>1 DEF RetryOperation, Retryable, Redispatch, Nudge, ControlFrame, TypeOK, targetVars
<1>8. QED
  <2> HIDE DEF os, rs
  <2> QED BY <1>4, <1>5, <1>6, <1>7, AdmitPreserves

\* Cancelling a run releases every reservation never claimed.
LEMMA CancelRunStep ==
  ASSUME LedgerInv, CancelRun
  PROVE  LedgerInv'
<1>1. TypeOK
  BY DEF LedgerInv
<1> DEFINE ops == {o \in Op : opStatus[o] \notin {None, "COMPLETED"}}
           rs == ResCancelled(ops)
<1>2. /\ resStatus' = rs /\ reserved' = HeldAfterRelease(ops)
      /\ opStatus' = OpsCancelled(ops) /\ runStatus' = "CANCELLED"
      /\ UNCHANGED <<ceiling, attempts, issued, queue, accounted, settled, created, targetVars,
                     workerVars, historyVars>>
  BY DEF CancelRun, ControlFrame
<1>3. /\ rs \in [Res -> ReservationStatus \cup {None}]
      /\ \A r \in Res : rs[r] # None => r[2] <= attempts[r[1]]
      /\ HeldAfterRelease(ops) \in Nat
      /\ HeldAfterRelease(ops) = Total(Amount, {r \in Res : rs[r] \in Held})
      /\ accounted + HeldAfterRelease(ops) <= ceiling
      /\ {r \in Res : rs[r] = "SETTLED"} = SettledRes
      /\ \A r \in Res : resStatus[r] \in Claimed => rs[r] = resStatus[r]
  <2>1. ops \in SUBSET Op
    OBVIOUS
  <2> HIDE DEF ops
  <2> QED BY <2>1, Released
<1>4. OpsCancelled(ops) \in [Op -> OperationStatus \cup {None}]
  BY <1>1 DEF OpsCancelled, OperationStatus, TypeOK
<1> HIDE DEF ops, rs
<1>5. TypeOK'
  BY <1>1, <1>2, <1>3, <1>4 DEF TypeOK, RunStatus, targetVars, workerVars, historyVars
<1>6. AttemptsCounted'
  BY <1>2, <1>3 DEF AttemptsCounted
<1>7. JobsClaimed'
  BY <1>2, <1>3 DEF JobsClaimed, LedgerInv, workerVars, Claimed
<1>8. LedgerBalanced'
  <2>1. reserved' = Total(Amount, HeldRes')
    BY <1>2, <1>3 DEF HeldRes
  <2>2. accounted = Total(settled, SettledRes)
    BY DEF LedgerInv, LedgerBalanced, SettledRes
  <2>3. SettledRes' = SettledRes
    BY <1>2, <1>3 DEF SettledRes
  <2>4. accounted' = Total(settled', SettledRes')
    BY <1>2, <2>2, <2>3
  <2> QED BY <2>1, <2>4 DEF LedgerBalanced, SettledRes
<1>9. WithinCeiling'
  BY <1>2, <1>3 DEF WithinCeiling
<1>10. QED
  BY <1>5, <1>6, <1>7, <1>8, <1>9 DEF LedgerInv

\* A claim changes a held reservation into another held one, and records its job.
LEMMA ClaimStep ==
  ASSUME LedgerInv, NEW w \in Worker, NEW r \in Res, Claim(w, r)
  PROVE  LedgerInv'
<1> USE DEF Claim
<1>1. TypeOK /\ r[1] \in Op
  BY DEF LedgerInv, Res
<1>2. TypeOK'
  BY <1>1 DEF TypeOK, runVars, targetVars, historyVars, OperationStatus, ReservationStatus
<1>3. resStatus[r] = "RESERVED" /\ resStatus' = [resStatus EXCEPT ![r] = "STARTED"]
  BY DEF Claimable
<1>4. HeldRes' = HeldRes /\ SettledRes' = SettledRes
  BY <1>1, <1>3 DEF HeldRes, SettledRes, Held, TypeOK
<1>5. \A x \in Res : resStatus'[x] # None => resStatus[x] # None
  BY <1>1, <1>3 DEF TypeOK, ReservationStatus
<1>6. JobsClaimed'
  <2> SUFFICES ASSUME NEW v \in Worker, pc'[v] # "idle"
               PROVE  /\ job'[v] \in Res
                      /\ resStatus'[job'[v]] \in Claimed
                      /\ pc'[v] = "answered" => receipt'[v] <= Amount[job'[v]]
    BY DEF JobsClaimed, Claimed
  <2>1. CASE v = w
    <3>1. job'[v] = r /\ resStatus'[r] = "STARTED"
      BY <1>1, <2>1 DEF TypeOK
    <3>2. pc'[v] = "calling"
      BY <1>1, <2>1 DEF TypeOK
    <3> QED BY <3>1, <3>2 DEF Claimed
  <2>2. CASE v # w
    <3>1. pc'[v] = pc[v] /\ job'[v] = job[v] /\ receipt'[v] = receipt[v]
      BY <1>1, <2>2 DEF TypeOK
    <3>2. /\ job[v] \in Res /\ resStatus[job[v]] \in Claimed
          /\ pc[v] = "answered" => receipt[v] <= Amount[job[v]]
      BY <3>1 DEF LedgerInv, JobsClaimed, Claimed
    <3>3. job[v] # r
      BY <1>3, <3>2 DEF Claimed
    <3> QED BY <1>1, <1>3, <3>1, <3>2, <3>3 DEF TypeOK
  <2> QED BY <2>1, <2>2
<1>7. QED
  BY <1>2, <1>4, <1>5, <1>6, LedgerUntouched DEF runVars

\* What a worker does to its own control state when it finishes or dies.
LEMMA OthersJobs ==
  ASSUME LedgerInv, NEW w \in Worker, pc' = [pc EXCEPT ![w] = "idle"],
         job' = [job EXCEPT ![w] = None], receipt' = [receipt EXCEPT ![w] = 0],
         \A r \in Res : resStatus[r] \in Claimed => resStatus'[r] \in Claimed
  PROVE  JobsClaimed'
<1> SUFFICES ASSUME NEW v \in Worker, pc'[v] # "idle"
             PROVE  /\ job'[v] \in Res
                    /\ resStatus'[job'[v]] \in Claimed
                    /\ pc'[v] = "answered" => receipt'[v] <= Amount[job'[v]]
  BY DEF JobsClaimed, Claimed
<1>1. v # w
  BY DEF LedgerInv, TypeOK
<1>2. pc'[v] = pc[v] /\ job'[v] = job[v] /\ receipt'[v] = receipt[v]
  BY <1>1 DEF LedgerInv, TypeOK
<1>3. QED
  BY <1>2 DEF LedgerInv, JobsClaimed, Claimed

\* Settling takes a bound out of the reserved sum and what was spent of it into
\* the accounted one.
LEMMA SettleStep ==
  ASSUME LedgerInv, NEW w \in Worker, Settle(w)
  PROVE  LedgerInv'
<1> DEFINE r == job[w]
           actual == receipt[w]
<1>1. TypeOK
  BY DEF LedgerInv
<1>2. /\ r \in Res /\ resStatus[r] \in Claimed
      /\ actual <= Amount[r] /\ actual \in Nat /\ Amount[r] \in Nat /\ r[1] \in Op
  BY <1>1, AmountType DEF Settle, LedgerInv, JobsClaimed, Claimed, TypeOK, Res
<1>3. /\ SettleReceipt(r, actual)
      /\ pc' = [pc EXCEPT ![w] = "idle"] /\ job' = [job EXCEPT ![w] = None]
      /\ receipt' = [receipt EXCEPT ![w] = 0] /\ queue' \subseteq queue
      /\ UNCHANGED <<attempts, created, text, access, approved, routing, historyVars>>
  BY DEF Settle, Finish
<1> HIDE DEF r, actual
<1>4. CASE resStatus[r] = "SETTLED"
  <2>1. UNCHANGED <<runVars, opStatus, resVars, vector>>
    BY <1>3, <1>4 DEF SettleReceipt
  <2>2. TypeOK'
    BY <1>1, <1>3, <2>1 DEF TypeOK, runVars, resVars, historyVars
  <2>3. JobsClaimed'
    BY <1>3, <2>1, OthersJobs DEF resVars
  <2>4. QED
    BY <1>3, <2>1, <2>2, <2>3, LedgerUntouched DEF runVars, resVars, HeldRes, SettledRes
<1>5. CASE resStatus[r] # "SETTLED"
  <2>1. /\ \/ NoPublication(r)
           \/ Publishable(r) /\ PublishVector(r[1])
           \/ Publishable(r) /\ PublicationFails(r[1])
        /\ resStatus' = [resStatus EXCEPT ![r] = "SETTLED"]
        /\ settled' = [settled EXCEPT ![r] = actual]
        /\ reserved' = reserved - Amount[r]
        /\ accounted' = accounted + actual
        /\ UNCHANGED <<ceiling, issued>>
    BY <1>3, <1>5 DEF SettleReceipt
  <2>2. r \in HeldRes
    BY <1>2, <1>5 DEF HeldRes, Held, Claimed
  <2>3. HeldRes' = HeldRes \ {r} /\ SettledRes' = SettledRes \cup {r} /\ r \notin SettledRes
    BY <1>1, <1>2, <1>5, <2>1 DEF HeldRes, SettledRes, Held, TypeOK
  <2>4. reserved' = Total(Amount, HeldRes')
    <3>1. HeldRes \subseteq Res
      BY DEF HeldRes
    <3>2. IsFiniteSet(HeldRes) /\ \A x \in HeldRes : Amount[x] \in Nat
      BY <3>1, ResFinite, AmountType
    <3>3. Total(Amount, HeldRes \ {r}) = Total(Amount, HeldRes) - Amount[r]
      BY <2>2, <3>2, TotalRemove
    <3> QED BY <2>1, <2>3, <3>3 DEF LedgerInv, LedgerBalanced
  <2>5. reserved' \in Nat
    BY <2>4, ResSums DEF HeldRes
  <2>6. accounted' = Total(settled', SettledRes')
    <3>1. SettledRes \subseteq Res
      BY DEF SettledRes
    <3>2. /\ settled'[r] = actual
          /\ \A x \in SettledRes : settled'[x] = settled[x] /\ settled'[x] \in Nat
      BY <1>1, <1>2, <2>1, <2>3, <3>1 DEF TypeOK
    <3>3. IsFiniteSet(SettledRes) /\ \A x \in SettledRes \cup {r} : settled'[x] \in Nat
      BY <1>2, <3>1, <3>2, ResFinite
    <3>4. Total(settled', SettledRes \cup {r}) = Total(settled', SettledRes) + settled'[r]
      BY <2>3, <3>3, TotalAdd
    <3>5. Total(settled', SettledRes) = Total(settled, SettledRes)
      BY <3>2, TotalSame
    <3>6. accounted = Total(settled, SettledRes)
      BY DEF LedgerInv, LedgerBalanced, SettledRes
    <3> QED BY <2>1, <2>3, <3>2, <3>4, <3>5, <3>6
  <2>7. LedgerBalanced'
    BY <2>4, <2>6 DEF LedgerBalanced, SettledRes
  <2>8. WithinCeiling'
    BY <1>1, <1>2, <2>1, <2>5 DEF LedgerInv, WithinCeiling, TypeOK
  <2>9. TypeOK'
    <3>1. runStatus' \in RunStatus /\ opStatus' \in [Op -> OperationStatus \cup {None}]
      BY <1>1, <1>2, <2>1
         DEF TypeOK, RunStatus, OperationStatus, NoPublication, PublishVector, PublicationFails
    <3>2. vector' \in [Target -> Text \cup {None}]
      BY <1>1, <1>2, <2>1 DEF TypeOK, Op, NoPublication, PublishVector, PublicationFails
    <3>3. resStatus' \in [Res -> ReservationStatus \cup {None}] /\ settled' \in [Res -> Nat]
      BY <1>1, <1>2, <2>1 DEF TypeOK, ReservationStatus
    <3> QED BY <1>1, <1>2, <1>3, <2>1, <2>5, <3>1, <3>2, <3>3 DEF TypeOK, historyVars
  <2>10. AttemptsCounted'
    BY <1>1, <1>2, <1>3, <2>1 DEF LedgerInv, AttemptsCounted, TypeOK, Claimed, ReservationStatus
  <2>11. JobsClaimed'
    BY <1>1, <1>3, <2>1, OthersJobs DEF TypeOK, Claimed
  <2>12. QED
    BY <2>7, <2>8, <2>9, <2>10, <2>11 DEF LedgerInv
<1>6. QED
  BY <1>4, <1>5

\* The provider's answer changes what a worker holds, not the ledger.
LEMMA CallProviderStep ==
  ASSUME LedgerInv, NEW w \in Worker, CallProvider(w)
  PROVE  LedgerInv'
<1> DEFINE r == job[w]
<1>1. TypeOK
  BY DEF LedgerInv
<1>2. r \in Res /\ resStatus[r] \in Claimed /\ Amount[r] \in Nat
  BY AmountType DEF CallProvider, LedgerInv, JobsClaimed, Claimed
<1>3. PICK bill \in 0..Amount[r] : \E usage \in {bill, Amount[r] + 1, None} :
        /\ calls' = [calls EXCEPT ![r] = @ + 1]
        /\ billed' = [billed EXCEPT ![r] = @ + bill]
        /\ pc' = [pc EXCEPT ![w] = IF ValidUsage(r, usage) THEN "answered" ELSE "failed"]
        /\ receipt' = [receipt EXCEPT ![w] = IF ValidUsage(r, usage) THEN usage ELSE 0]
  BY DEF CallProvider
<1>3a. PICK usage \in {bill, Amount[r] + 1, None} :
        /\ calls' = [calls EXCEPT ![r] = @ + 1]
        /\ billed' = [billed EXCEPT ![r] = @ + bill]
        /\ pc' = [pc EXCEPT ![w] = IF ValidUsage(r, usage) THEN "answered" ELSE "failed"]
        /\ receipt' = [receipt EXCEPT ![w] = IF ValidUsage(r, usage) THEN usage ELSE 0]
  BY <1>3
<1>4. UNCHANGED <<runVars, opVars, resVars, targetVars, queue, job>>
  BY DEF CallProvider
<1> HIDE DEF r
<1>5. ValidUsage(r, usage) => usage \in Nat /\ usage <= Amount[r]
  BY <1>2 DEF ValidUsage
<1>6. TypeOK'
  <2>1. calls' \in [Res -> Nat] /\ billed' \in [Res -> Nat]
    BY <1>1, <1>2, <1>3a DEF TypeOK
  <2>2. /\ pc' \in [Worker -> {"idle", "calling", "answered", "failed"}]
        /\ receipt' \in [Worker -> Nat]
    BY <1>1, <1>3a, <1>5 DEF TypeOK
  <2> QED BY <1>1, <1>4, <2>1, <2>2 DEF TypeOK, runVars, opVars, resVars, targetVars
<1>7. JobsClaimed'
  <2> SUFFICES ASSUME NEW v \in Worker, pc'[v] # "idle"
               PROVE  /\ job'[v] \in Res
                      /\ resStatus'[job'[v]] \in Claimed
                      /\ pc'[v] = "answered" => receipt'[v] <= Amount[job'[v]]
    BY DEF JobsClaimed, Claimed
  <2>1. job' = job /\ resStatus' = resStatus
    BY <1>4 DEF resVars
  <2>2. CASE v = w
    <3>1. pc'[v] = "answered" => receipt'[v] <= Amount[r]
      BY <1>1, <1>3a, <1>5, <2>2 DEF TypeOK
    <3> QED BY <1>2, <2>1, <2>2, <3>1 DEF r
  <2>3. CASE v # w
    BY <1>1, <1>3a, <2>1, <2>3 DEF TypeOK, LedgerInv, JobsClaimed, Claimed
  <2> QED BY <2>2, <2>3
<1>8. QED
  BY <1>4, <1>6, <1>7, LedgerUntouched DEF runVars, opVars, resVars, HeldRes, SettledRes

\* A lost answer keeps its reservation held.
LEMMA RecordUncertainStep ==
  ASSUME LedgerInv, NEW w \in Worker, RecordUncertain(w)
  PROVE  LedgerInv'
<1> DEFINE r == job[w]
<1>1. TypeOK
  BY DEF LedgerInv
<1>2. r \in Res /\ resStatus[r] \in Claimed /\ r[1] \in Op
  BY DEF RecordUncertain, LedgerInv, JobsClaimed, Claimed, Res
<1>3. /\ UncertainOutcome(r)
      /\ pc' = [pc EXCEPT ![w] = "idle"] /\ job' = [job EXCEPT ![w] = None]
      /\ receipt' = [receipt EXCEPT ![w] = 0] /\ queue' \subseteq queue
      /\ UNCHANGED <<ceiling, accounted, reserved, attempts, created, settled, issued, targetVars,
                     historyVars>>
  BY DEF RecordUncertain, Finish
<1> HIDE DEF r
<1>4. /\ resStatus' = resStatus \/ (/\ resStatus[r] # "SETTLED"
                                    /\ resStatus' = [resStatus EXCEPT ![r] = "UNCERTAIN"])
      /\ opStatus' \in [Op -> OperationStatus \cup {None}]
      /\ runStatus' \in RunStatus
  BY <1>1, <1>2, <1>3 DEF UncertainOutcome, TypeOK, OperationStatus, RunStatus
<1>5. TypeOK'
  BY <1>1, <1>2, <1>3, <1>4 DEF TypeOK, targetVars, historyVars, ReservationStatus
<1>6. HeldRes' = HeldRes /\ SettledRes' = SettledRes
  BY <1>1, <1>2, <1>4 DEF HeldRes, SettledRes, Held, Claimed, TypeOK
<1>7. \A x \in Res : resStatus'[x] # None => resStatus[x] # None
  BY <1>1, <1>2, <1>4 DEF TypeOK, Claimed, ReservationStatus
<1>8. JobsClaimed'
  BY <1>1, <1>3, <1>4, OthersJobs DEF TypeOK, Claimed
<1>9. QED
  BY <1>3, <1>5, <1>6, <1>7, <1>8, LedgerUntouched

\* Steps that change no reservation, no worker's answer and no sum.
LEMMA BystanderStep ==
  ASSUME LedgerInv,
         \/ RouteRefused \/ Drain \/ Pause \/ Reconfigure
         \/ \E t \in Target : Edit(t) \/ ChangeAccess(t) \/ ReadTarget(t)
         \/ \E w \in Worker, r \in Res : SkipDelivery(w, r) \/ RefuseDelivery(w, r) \/ DeliveryRaises(w, r)
         \/ \E w \in Worker : SettleFails(w) \/ Crash(w)
         \/ UNCHANGED vars
  PROVE  LedgerInv'
<1>1. TypeOK
  BY DEF LedgerInv
<1>2. UNCHANGED <<ceiling, accounted, reserved, attempts, created, opStatus, resStatus, settled, issued,
                  historyVars>>
  BY DEF RouteRefused, Drain, Pause, ControlFrame, Reconfigure, Edit, ChangeAccess, ReadTarget,
       SkipDelivery, RefuseDelivery, DeliveryRaises,
         SettleFails, Crash, vars, runVars, opVars, resVars
<1>3. runStatus' \in RunStatus
  BY <1>1 DEF RouteRefused, Drain, Pause, ControlFrame, Reconfigure, Edit, ChangeAccess, ReadTarget,
       SkipDelivery,
       RefuseDelivery, DeliveryRaises, SettleFails, Crash, vars, runVars, Violated, RunStatus, TypeOK
<1>4. queue' \subseteq Res
  BY <1>1 DEF RouteRefused, Drain, ReservedRows, Pause, ControlFrame, Reconfigure, Edit, ChangeAccess, ReadTarget,
       SkipDelivery,
       RefuseDelivery, DeliveryRaises, SettleFails, Crash, vars, TypeOK
<1>5. /\ text' \in [Target -> Text \cup {None}] /\ access' \in [Target -> Access]
      /\ vector' \in [Target -> Text \cup {None}]
      /\ approved' \in BOOLEAN /\ routing' \subseteq Op
  <2>1. CASE \E t \in Target : Edit(t)
    <3>1. PICK t \in Target, x \in Text \cup {None} :
            /\ text' = [text EXCEPT ![t] = x]
            /\ vector' = [vector EXCEPT ![t] = None] \/ vector' = vector
            /\ UNCHANGED <<access, approved, routing>>
      BY <2>1 DEF Edit
    <3> QED BY <1>1, <3>1 DEF TypeOK
  <2>2. CASE Reconfigure
    BY <1>1, <2>2 DEF Reconfigure, TypeOK
  <2>3. CASE UNCHANGED targetVars
    BY <1>1, <2>3 DEF targetVars, TypeOK
  <2>4. CASE \E t \in Target : ReadTarget(t)
    BY <1>1, <2>4 DEF ReadTarget, TypeOK, Op
  <2>5. CASE \E t \in Target : ChangeAccess(t)
    BY <1>1, <2>5 DEF ChangeAccess, TypeOK
  <2> QED BY <2>1, <2>2, <2>3, <2>4, <2>5 DEF RouteRefused, Drain, Pause, ControlFrame, SkipDelivery,
               RefuseDelivery, DeliveryRaises, SettleFails, Crash, vars
<1>6. \/ UNCHANGED workerVars
      \/ \E w \in Worker :
           \/ /\ pc[w] = "answered" /\ pc' = [pc EXCEPT ![w] = "failed"]
              /\ UNCHANGED <<job, receipt>>
           \/ /\ pc' = [pc EXCEPT ![w] = "idle"] /\ job' = [job EXCEPT ![w] = None]
              /\ receipt' = [receipt EXCEPT ![w] = 0]
  BY DEF RouteRefused, Drain, Pause, ControlFrame, Reconfigure, Edit, ChangeAccess, ReadTarget,
       SkipDelivery, RefuseDelivery, DeliveryRaises,
         SettleFails, Crash, vars
<1>7. /\ pc' \in [Worker -> {"idle", "calling", "answered", "failed"}]
      /\ job' \in [Worker -> Res \cup {None}] /\ receipt' \in [Worker -> Nat]
  BY <1>1, <1>6 DEF TypeOK, workerVars
<1>8. TypeOK'
  BY <1>1, <1>2, <1>3, <1>4, <1>5, <1>7 DEF TypeOK, historyVars
<1>9. JobsClaimed'
  <2>1. CASE UNCHANGED workerVars
    BY <1>2, <2>1 DEF LedgerInv, JobsClaimed, workerVars
  <2>2. ASSUME NEW w \in Worker, pc[w] = "answered", pc' = [pc EXCEPT ![w] = "failed"],
               UNCHANGED <<job, receipt>>
        PROVE  JobsClaimed'
    BY <1>1, <1>2, <2>2 DEF LedgerInv, JobsClaimed, TypeOK
  <2>3. ASSUME NEW w \in Worker, pc' = [pc EXCEPT ![w] = "idle"],
               job' = [job EXCEPT ![w] = None], receipt' = [receipt EXCEPT ![w] = 0]
        PROVE  JobsClaimed'
    BY <1>2, <2>3, OthersJobs
  <2> QED BY <1>6, <2>1, <2>2, <2>3
<1>10. QED
  BY <1>2, <1>8, <1>9, LedgerUntouched DEF HeldRes, SettledRes

\* The invariant is inductive: one step for each disjunct of Next.
LEMMA LedgerStep == LedgerInv /\ [Next]_vars => LedgerInv'
<1> SUFFICES ASSUME LedgerInv, [Next]_vars PROVE LedgerInv'
  OBVIOUS
<1>1. ASSUME NEW o \in Op, Route(o) PROVE LedgerInv'
  BY <1>1, RouteStep
<1>2. ASSUME NEW w \in Worker, NEW r \in Res, Deliver(w, r) PROVE LedgerInv'
  BY <1>2, ClaimStep, BystanderStep DEF Deliver
<1>3. ASSUME NEW w \in Worker, Execute(w) \/ Crash(w) PROVE LedgerInv'
  BY <1>3, CallProviderStep, SettleStep, RecordUncertainStep, BystanderStep DEF Execute
<1>4. CASE Control
  BY <1>4, BystanderStep, CancelRunStep, ResumeStep, CancelOperationStep, RetryOperationStep
     DEF Control
<1>5. CASE \/ Drain \/ Environment \/ UNCHANGED vars
           \/ \E t \in Target : ReadTarget(t)
  BY <1>5, BystanderStep DEF Environment
<1>6. QED
  BY <1>1, <1>2, <1>3, <1>4, <1>5 DEF Next

-----------------------------------------------------------------------------
(* Theorems *)

\* Every reachable state satisfies the invariant.
LEMMA LedgerInvariant == Spec => []LedgerInv
BY LedgerInit, LedgerStep, PTL DEF Spec

\* The rows and workers keep their types; in particular the reserved sum never
\* becomes negative (constraint ingest_run_nonnegative).
THEOREM TypeCorrect == Spec => []TypeOK
<1>1. LedgerInv => TypeOK
  BY DEF LedgerInv
<1>2. QED
  BY <1>1, LedgerInvariant, PTL

\* A run never commits more than its ceiling: accounted plus reserved stays
\* within it through admissions, retries, late receipts and raises.
THEOREM BudgetSafe == Spec => []WithinCeiling
<1>1. LedgerInv => WithinCeiling
  BY DEF LedgerInv
<1>2. QED
  BY <1>1, LedgerInvariant, PTL

\* The two sums of the run row are exactly the sums of its reservation rows.
THEOREM LedgerExact == Spec => []LedgerBalanced
<1>1. LedgerInv => LedgerBalanced
  BY DEF LedgerInv
<1>2. QED
  BY <1>1, LedgerInvariant, PTL

-----------------------------------------------------------------------------
(* Operations and reservations *)

(***************************************************************************)
(* RowsAgree is not inductive alone: a started attempt belongs to an       *)
(* operation that runs or was cancelled (so nothing waits on it), and what *)
(* runs or is routed for the first time has the attempts it should.        *)
(***************************************************************************)
StartedRuns ==
  \A r \in Res : resStatus[r] = "STARTED" => opStatus[r[1]] \in {"RUNNING", "CANCELLED"}

AttemptsNamed ==
  \A o \in Op :
    /\ opStatus[o] = None => attempts[o] = 0
    /\ opStatus[o] = "RUNNING" => attempts[o] >= 1

RowsInv ==
  RowsAgree /\ StartedRuns /\ AttemptsNamed /\ CancelledRunDrained /\ ActiveRunAdmits

(***************************************************************************)
(* Provider calls.  One worker calls for a reservation, once, after it was *)
(* claimed; what it answers with is what was billed, and what settles.     *)
(***************************************************************************)
CallsInv ==
  /\ \A r \in Res :
       /\ resStatus[r] \notin Claimed => calls[r] = 0
       /\ calls[r] <= 1 /\ billed[r] <= Amount[r]
       /\ calls[r] = 0 => billed[r] = 0
       /\ resStatus[r] = "SETTLED" => calls[r] = 1 /\ settled[r] = billed[r]
  /\ \A w \in Worker :
       /\ pc[w] = "calling" => calls[job[w]] = 0
       /\ pc[w] = "answered" => calls[job[w]] = 1 /\ receipt[w] = billed[job[w]]
  /\ \A v, w \in Worker : pc[v] = "calling" /\ pc[w] = "calling" /\ job[v] = job[w] => v = w

RunInv == LedgerInv /\ RowsInv /\ CallsInv

\* The rows a sweep is handed: what RowsInv says of them, where nothing but W may
\* wait in an ACTIVE run.
RowsReady(W, s, os, rs) ==
  /\ W \in SUBSET Op
  /\ os \in [Op -> OperationStatus \cup {None}]
  /\ rs \in [Res -> ReservationStatus \cup {None}]
  /\ \A r \in Res : rs[r] \in {"RESERVED", "STARTED"} => r = Current(r[1])
  /\ \A r \in Res : rs[r] = "RESERVED" => os[r[1]] = "QUEUED"
  /\ \A r \in Res : rs[r] = "STARTED" => os[r[1]] \in {"RUNNING", "CANCELLED"}
  /\ \A o \in Op :
       /\ os[o] = "QUEUED" => \E r \in Res : r[1] = o /\ rs[r] = "RESERVED"
       /\ os[o] = "RUNNING" => rs[Current(o)] = "STARTED" /\ attempts[o] >= 1
       /\ os[o] = "WAITING" => attempts[o] < MaxAttempts
       /\ os[o] = None => attempts[o] = 0
       /\ s = "CANCELLED" => os[o] \notin {"QUEUED", "RUNNING"}
       /\ s = "ACTIVE" /\ o \notin W => os[o] # "WAITING"

\* A sweep admits all that waits, or takes the run out of ACTIVE.
LEMMA AdmitRows ==
  ASSUME TypeOK, NEW W, NEW s, NEW os, NEW rs, NEW held, NEW limit,
         RowsReady(W, s, os, rs), Admit(W, s, os, rs, held, limit)
  PROVE  RowsInv'
<1> USE DEF RowsReady
<1> DEFINE waiting  == {o \in W : s = "ACTIVE" /\ os[o] = "WAITING"}
           eligible == {o \in waiting : approved /\ attempts[o] < MaxAttempts}
           admitted == Affordable(eligible, limit - accounted - held)
           fresh    == {NextRes(o) : o \in admitted}
<1>1. admitted \subseteq eligible
  BY DEF Affordable
<1>2. waiting # {} /\ approved => eligible = waiting
  OBVIOUS
<1> HIDE DEF admitted
<1>3. /\ runStatus' = IF waiting # {} /\ ~approved THEN Violated(s)
                      ELSE IF admitted # eligible THEN "BUDGET_EXHAUSTED" ELSE s
      /\ opStatus' = [o \in Op |-> IF o \in admitted THEN "QUEUED" ELSE os[o]]
      /\ attempts' = [o \in Op |-> IF o \in admitted THEN attempts[o] + 1 ELSE attempts[o]]
      /\ resStatus' = [r \in Res |-> IF r \in fresh THEN "RESERVED" ELSE rs[r]]
  BY DEF Admit, admitted
<1>4. \A o \in admitted : o \in Op /\ s = "ACTIVE" /\ os[o] = "WAITING" /\ attempts[o] < MaxAttempts
  BY <1>1
<1>5. \A o \in Op : attempts[o] \in Nat
  BY DEF TypeOK
<1>6. \A r \in Res : r \in fresh <=> r[1] \in admitted /\ r = NextRes(r[1])
  BY DEF NextRes
<1>7. \A o \in admitted : NextRes(o) \in Res /\ NextRes(o)[1] = o
  <2> SUFFICES ASSUME NEW o \in admitted PROVE NextRes(o) \in Res /\ NextRes(o)[1] = o
    OBVIOUS
  <2>1. o \in Op /\ attempts[o] + 1 \in Attempt
    BY <1>4, <1>5 DEF Attempt
  <2> QED BY <2>1 DEF NextRes, Res
<1>8. \A r \in Res : r[1] \in Op
  BY DEF Res
<1>9. \A o \in admitted, r \in Res : r[1] = o => rs[r] \notin {"RESERVED", "STARTED"}
  BY <1>4
<1> HIDE DEF eligible, fresh
<1>10. ASSUME NEW r \in Res, resStatus'[r] \in {"RESERVED", "STARTED"}
       PROVE  r = Current(r[1])'
  <2>1. CASE r \in fresh
    BY <1>3, <1>6, <1>8, <2>1 DEF NextRes, Current
  <2>2. CASE r \notin fresh
    <3>1. rs[r] \in {"RESERVED", "STARTED"}
      BY <1>3, <1>10, <2>2
    <3>2. r[1] \notin admitted
      BY <1>9, <3>1
    <3> QED BY <1>3, <1>8, <3>1, <3>2 DEF Current
  <2> QED BY <2>1, <2>2
<1>11. ASSUME NEW o \in Op
       PROVE  opStatus'[o] = "QUEUED" <=> \E r \in Res : r[1] = o /\ resStatus'[r] = "RESERVED"
  <2>1. CASE o \in admitted
    BY <1>3, <1>6, <1>7, <2>1
  <2>2. CASE o \notin admitted
    <3>1. \A r \in Res : r[1] = o => resStatus'[r] = rs[r]
      BY <1>3, <1>6, <2>2
    <3>2. opStatus'[o] = os[o]
      BY <1>3, <2>2
    <3> QED BY <3>1, <3>2
  <2> QED BY <2>1, <2>2
<1>12. ASSUME NEW o \in Op, opStatus'[o] = "RUNNING"
       PROVE  resStatus'[Current(o)'] = "STARTED" /\ attempts'[o] >= 1
  <2>1. o \notin admitted /\ os[o] = "RUNNING" /\ attempts'[o] = attempts[o]
    BY <1>3, <1>12
  <2>2. Current(o) \in Res /\ Current(o)[1] = o /\ Current(o)' = Current(o)
    BY <2>1 DEF Current, Res, Attempt, TypeOK
  <2>3. Current(o) \notin fresh
    BY <1>6, <2>1, <2>2
  <2> QED BY <1>3, <2>1, <2>2, <2>3
<1>13. \A o \in Op : opStatus'[o] = "WAITING" => attempts'[o] < MaxAttempts
  BY <1>3
<1>14. \A o \in Op : opStatus'[o] = None => attempts'[o] = 0
  BY <1>3 DEF OperationStatus
<1>15. ASSUME NEW r \in Res, resStatus'[r] = "STARTED"
       PROVE  opStatus'[r[1]] \in {"RUNNING", "CANCELLED"}
  <2>1. r \notin fresh /\ rs[r] = "STARTED"
    BY <1>3, <1>15
  <2>2. r[1] \notin admitted
    BY <1>9, <2>1
  <2> QED BY <1>3, <1>8, <2>1, <2>2
<1>16. CancelledRunDrained'
  <2> SUFFICES ASSUME runStatus' = "CANCELLED"
               PROVE  /\ \A r \in Res : resStatus'[r] # "RESERVED"
                      /\ \A o \in Op : opStatus'[o] \notin {"QUEUED", "RUNNING"}
    BY DEF CancelledRunDrained
  <2>1. s = "CANCELLED"
    BY <1>3 DEF Violated
  <2>2. admitted = {}
    BY <1>4, <2>1
  <2>3. \A o \in Op : opStatus'[o] \notin {"QUEUED", "RUNNING"}
    BY <1>3, <2>1, <2>2
  <2> QED BY <1>8, <1>11, <2>3
<1>17. ActiveRunAdmits'
  <2> SUFFICES ASSUME runStatus' = "ACTIVE", NEW o \in Op PROVE opStatus'[o] # "WAITING"
    BY DEF ActiveRunAdmits
  <2>1. s = "ACTIVE" /\ ~(waiting # {} /\ ~approved) /\ admitted = eligible
    BY <1>3 DEF Violated
  <2>2. o \in W /\ os[o] = "WAITING" => o \in admitted
    BY <1>2, <2>1
  <2> QED BY <1>3, <2>1, <2>2
<1>18. RowsAgree'
  BY <1>10, <1>11, <1>12, <1>13 DEF RowsAgree
<1> QED BY <1>12, <1>14, <1>15, <1>16, <1>17, <1>18 DEF RowsInv, StartedRuns, AttemptsNamed

\* A step that leaves the rows alone may stop the run, not cancel or start it.
LEMMA RowsUntouched ==
  ASSUME RowsInv, UNCHANGED <<opStatus, attempts, resStatus>>,
         runStatus' # runStatus => runStatus' \notin {"ACTIVE", "CANCELLED"}
  PROVE  RowsInv'
<1>1. RowsAgree'
  BY DEF RowsInv, RowsAgree, Current
<1>2. StartedRuns' /\ AttemptsNamed'
  BY DEF RowsInv, StartedRuns, AttemptsNamed
<1>3. CancelledRunDrained' /\ ActiveRunAdmits'
  BY DEF RowsInv, CancelledRunDrained, ActiveRunAdmits
<1> QED BY <1>1, <1>2, <1>3 DEF RowsInv

\* The rows as they are can be handed to a sweep over any operations.
LEMMA ReadyAsIs ==
  ASSUME TypeOK, RowsInv, NEW W \in SUBSET Op
  PROVE  RowsReady(W, runStatus, opStatus, resStatus)
<1> USE DEF RowsInv
<1>1. \A r \in Res : r[1] \in Op
  BY DEF Res
<1>2. \A r \in Res : resStatus[r] = "RESERVED" => opStatus[r[1]] = "QUEUED"
  BY <1>1 DEF RowsAgree
<1>3. \A r \in Res : resStatus[r] \in {"RESERVED", "STARTED"} => r = Current(r[1])
  BY DEF RowsAgree
<1>4. \A o \in Op :
       /\ opStatus[o] = "QUEUED" => \E r \in Res : r[1] = o /\ resStatus[r] = "RESERVED"
       /\ opStatus[o] = "RUNNING" => resStatus[Current(o)] = "STARTED" /\ attempts[o] >= 1
       /\ opStatus[o] = "WAITING" => attempts[o] < MaxAttempts
       /\ opStatus[o] = None => attempts[o] = 0
       /\ runStatus = "CANCELLED" => opStatus[o] \notin {"QUEUED", "RUNNING"}
       /\ runStatus = "ACTIVE" /\ o \notin W => opStatus[o] # "WAITING"
  BY DEF RowsAgree, AttemptsNamed, CancelledRunDrained, ActiveRunAdmits
<1>5. \A r \in Res : resStatus[r] = "STARTED" => opStatus[r[1]] \in {"RUNNING", "CANCELLED"}
  BY DEF StartedRuns
<1> QED BY <1>2, <1>3, <1>4, <1>5 DEF RowsReady, TypeOK

\* A new operation waits, the first time it is routed.
LEMMA RouteRows ==
  ASSUME TypeOK, RowsInv, NEW o \in Op, Route(o)
  PROVE  RowsInv'
<1> DEFINE os == IF opStatus[o] = None THEN [opStatus EXCEPT ![o] = "WAITING"] ELSE opStatus
<1>1. RowsReady({o}, runStatus, opStatus, resStatus)
  BY ReadyAsIs
<1>2. /\ os \in [Op -> OperationStatus \cup {None}]
      /\ \A p \in Op : os[p] = IF p = o /\ opStatus[o] = None THEN "WAITING" ELSE opStatus[p]
  BY DEF TypeOK, OperationStatus
<1>3. Admit({o}, runStatus, os, resStatus, reserved, ceiling)
  BY DEF Route
<1> HIDE DEF os
<1>4. \A r \in Res : r[1] \in Op
  BY DEF Res
<1>5. RowsReady({o}, runStatus, os, resStatus)
  <2>1. \A r \in Res : resStatus[r] = "RESERVED" => os[r[1]] = "QUEUED"
    BY <1>1, <1>2, <1>4 DEF RowsReady, OperationStatus
  <2>2. \A r \in Res : resStatus[r] = "STARTED" => os[r[1]] \in {"RUNNING", "CANCELLED"}
    BY <1>1, <1>2, <1>4 DEF RowsReady, OperationStatus
  <2>3. \A p \in Op :
         /\ os[p] = "QUEUED" => \E r \in Res : r[1] = p /\ resStatus[r] = "RESERVED"
         /\ os[p] = "RUNNING" => resStatus[Current(p)] = "STARTED" /\ attempts[p] >= 1
         /\ os[p] = None => attempts[p] = 0
         /\ runStatus = "CANCELLED" => os[p] \notin {"QUEUED", "RUNNING"}
         /\ runStatus = "ACTIVE" /\ p \notin {o} => os[p] # "WAITING"
    BY <1>1, <1>2 DEF RowsReady
  <2>4. \A p \in Op : os[p] = "WAITING" => attempts[p] < MaxAttempts
    BY <1>1, <1>2 DEF RowsReady
  <2> QED BY <1>1, <1>2, <2>1, <2>2, <2>3, <2>4 DEF RowsReady
<1> QED BY <1>3, <1>5, AdmitRows

\* A run that is resumed takes up what waits.
LEMMA ResumeRows ==
  ASSUME TypeOK, RowsInv, Resume
  PROVE  RowsInv'
<1>1. PICK c : Admit(Op, "ACTIVE", opStatus, resStatus, reserved, c)
  BY DEF Resume
<1>2. RowsReady(Op, "ACTIVE", opStatus, resStatus)
  <2>1. Op \in SUBSET Op
    OBVIOUS
  <2> QED BY <2>1, ReadyAsIs DEF RowsReady
<1> QED BY <1>1, <1>2, AdmitRows

\* What is left of the rows when some operations are cancelled.
LEMMA CancelledRows ==
  ASSUME TypeOK, RowsInv, NEW ops \in SUBSET Op
  PROVE  RowsReady(Op, runStatus, OpsCancelled(ops), ResCancelled(ops))
<1> DEFINE os == OpsCancelled(ops)
           rs == ResCancelled(ops)
<1>1. RowsReady(Op, runStatus, opStatus, resStatus)
  BY ReadyAsIs
<1>2. /\ os \in [Op -> OperationStatus \cup {None}]
      /\ \A o \in Op : os[o] = IF o \in ops THEN "CANCELLED" ELSE opStatus[o]
  BY DEF TypeOK, OpsCancelled, OperationStatus
<1>3. /\ rs \in [Res -> ReservationStatus \cup {None}]
      /\ \A r \in Res : rs[r] = IF r[1] \in ops /\ resStatus[r] = "RESERVED"
                                THEN "CANCELLED" ELSE resStatus[r]
  BY DEF TypeOK, ResCancelled, Unused, ReservationStatus
<1> HIDE DEF os, rs
<1>4. \A r \in Res : r[1] \in Op
  BY DEF Res
<1>5. \A r \in Res : rs[r] \in {"RESERVED", "STARTED"} => r = Current(r[1])
  BY <1>1, <1>3 DEF RowsReady
<1>6. \A r \in Res : rs[r] = "RESERVED" => os[r[1]] = "QUEUED"
  BY <1>1, <1>2, <1>3, <1>4 DEF RowsReady
<1>7. \A r \in Res : rs[r] = "STARTED" => os[r[1]] \in {"RUNNING", "CANCELLED"}
  BY <1>1, <1>2, <1>3, <1>4 DEF RowsReady
<1>8. ASSUME NEW o \in Op PROVE
        /\ os[o] = "QUEUED" => \E r \in Res : r[1] = o /\ rs[r] = "RESERVED"
        /\ os[o] = "RUNNING" => rs[Current(o)] = "STARTED" /\ attempts[o] >= 1
        /\ os[o] = "WAITING" => attempts[o] < MaxAttempts
        /\ os[o] = None => attempts[o] = 0
        /\ runStatus = "CANCELLED" => os[o] \notin {"QUEUED", "RUNNING"}
  <2>1. CASE o \in ops
    BY <1>2, <2>1 DEF OperationStatus
  <2>2. CASE o \notin ops
    <3>1. os[o] = opStatus[o] /\ \A r \in Res : r[1] = o => rs[r] = resStatus[r]
      BY <1>2, <1>3, <2>2
    <3>2. attempts[o] >= 1 => Current(o) \in Res /\ Current(o)[1] = o
      BY DEF Current, Res, Attempt, TypeOK
    <3> QED BY <1>1, <3>1, <3>2 DEF RowsReady
  <2> QED BY <2>1, <2>2
<1> QED BY <1>2, <1>3, <1>5, <1>6, <1>7, <1>8 DEF RowsReady, os, rs

LEMMA CancelOperationRows ==
  ASSUME TypeOK, RowsInv, NEW o \in Op, CancelOperation(o)
  PROVE  RowsInv'
<1>1. Admit(Op, runStatus, OpsCancelled({o}), ResCancelled({o}), HeldAfterRelease({o}), ceiling)
  BY DEF CancelOperation
<1>2. RowsReady(Op, runStatus, OpsCancelled({o}), ResCancelled({o}))
  <2>1. {o} \in SUBSET Op
    OBVIOUS
  <2> QED BY <2>1, CancelledRows
<1> QED BY <1>1, <1>2, AdmitRows

LEMMA CancelRunRows ==
  ASSUME TypeOK, RowsInv, CancelRun
  PROVE  RowsInv'
<1> DEFINE ops == {o \in Op : opStatus[o] \notin {None, "COMPLETED"}}
<1>1. /\ runStatus' = "CANCELLED" /\ attempts' = attempts
      /\ opStatus' = OpsCancelled(ops) /\ resStatus' = ResCancelled(ops)
  BY DEF CancelRun
<1>2. RowsReady(Op, runStatus, opStatus', resStatus')
  BY <1>1, CancelledRows
<1>3. \A o \in Op : opStatus'[o] \in {None, "COMPLETED", "CANCELLED"}
  BY <1>1 DEF OpsCancelled
<1> HIDE DEF ops
<1>4. \A o \in Op : opStatus'[o] \notin {"QUEUED", "RUNNING", "WAITING"}
  BY <1>3 DEF OperationStatus
<1>5. \A r \in Res : r[1] \in Op /\ resStatus'[r] # "RESERVED"
  BY <1>2, <1>4 DEF RowsReady, Res
<1>6. RowsAgree'
  BY <1>1, <1>2, <1>4, <1>5 DEF RowsReady, RowsAgree, Current
<1>7. StartedRuns' /\ AttemptsNamed'
  BY <1>1, <1>2, <1>4 DEF RowsReady, StartedRuns, AttemptsNamed
<1>8. CancelledRunDrained' /\ ActiveRunAdmits'
  BY <1>1, <1>4, <1>5 DEF CancelledRunDrained, ActiveRunAdmits
<1> QED BY <1>6, <1>7, <1>8 DEF RowsInv

\* A started attempt is abandoned, and its operation waits for another.
LEMMA RetryRows ==
  ASSUME TypeOK, RowsInv, NEW o \in Op, RetryOperation(o)
  PROVE  RowsInv'
<1> DEFINE os == [opStatus EXCEPT ![o] = "WAITING"]
           rs == Abandoned(o)
<1>1. Admit(Op, runStatus, os, rs, reserved, ceiling) /\ Retryable(o)
  BY DEF RetryOperation
<1>2. RowsReady(Op, runStatus, opStatus, resStatus)
  <2>1. Op \in SUBSET Op
    OBVIOUS
  <2> QED BY <2>1, ReadyAsIs
<1>3. /\ os \in [Op -> OperationStatus \cup {None}]
      /\ \A p \in Op : os[p] = IF p = o THEN "WAITING" ELSE opStatus[p]
  BY DEF TypeOK, OperationStatus
<1>4. /\ rs \in [Res -> ReservationStatus \cup {None}]
      /\ \A r \in Res : rs[r] = IF r[1] = o /\ resStatus[r] = "STARTED"
                                THEN "UNCERTAIN" ELSE resStatus[r]
  BY DEF TypeOK, Abandoned, ReservationStatus
<1> HIDE DEF os, rs
<1>5. \A r \in Res : r[1] \in Op
  BY DEF Res
<1>6. opStatus[o] \in {"UNCERTAIN", "RUNNING", "FAILED"} /\ attempts[o] < MaxAttempts
  BY <1>1 DEF Retryable
<1>7. \A r \in Res : rs[r] \in {"RESERVED", "STARTED"} => r = Current(r[1])
  BY <1>2, <1>4 DEF RowsReady
<1>8. \A r \in Res : rs[r] = "RESERVED" => os[r[1]] = "QUEUED"
  BY <1>2, <1>3, <1>4, <1>5, <1>6 DEF RowsReady
<1>9. \A r \in Res : rs[r] = "STARTED" => os[r[1]] \in {"RUNNING", "CANCELLED"}
  BY <1>2, <1>3, <1>4, <1>5 DEF RowsReady
<1>10. ASSUME NEW p \in Op PROVE
        /\ os[p] = "QUEUED" => \E r \in Res : r[1] = p /\ rs[r] = "RESERVED"
        /\ os[p] = "RUNNING" => rs[Current(p)] = "STARTED" /\ attempts[p] >= 1
        /\ os[p] = "WAITING" => attempts[p] < MaxAttempts
        /\ os[p] = None => attempts[p] = 0
        /\ runStatus = "CANCELLED" => os[p] \notin {"QUEUED", "RUNNING"}
  <2>1. CASE p = o
    BY <1>3, <1>6, <2>1 DEF OperationStatus
  <2>2. CASE p # o
    <3>1. os[p] = opStatus[p] /\ \A r \in Res : r[1] = p => rs[r] = resStatus[r]
      BY <1>3, <1>4, <2>2
    <3>2. attempts[p] >= 1 => Current(p) \in Res /\ Current(p)[1] = p
      BY DEF Current, Res, Attempt, TypeOK
    <3> QED BY <1>2, <3>1, <3>2 DEF RowsReady
  <2> QED BY <2>1, <2>2
<1>11. RowsReady(Op, runStatus, os, rs)
  BY <1>3, <1>4, <1>7, <1>8, <1>9, <1>10 DEF RowsReady
<1> QED BY <1>1, <1>11, AdmitRows

\* A claim takes the current attempt of a queued operation.
LEMMA ClaimRows ==
  ASSUME TypeOK, RowsInv, NEW w \in Worker, NEW r \in Res, Claim(w, r)
  PROVE  RowsInv'
<1> DEFINE o == r[1]
<1>1. /\ resStatus[r] = "RESERVED" /\ runStatus # "CANCELLED"
      /\ resStatus' = [resStatus EXCEPT ![r] = "STARTED"]
      /\ opStatus' = [opStatus EXCEPT ![o] = "RUNNING"]
      /\ UNCHANGED <<runStatus, attempts>>
  BY DEF Claim, Claimable, Executable, runVars
<1>2. o \in Op /\ r = Current(o) /\ opStatus[o] = "QUEUED" /\ r[2] = attempts[o] /\ attempts[o] >= 1
  <2>1. o \in Op /\ r[2] >= 1
    BY DEF Res, Attempt
  <2>2. r = Current(o) /\ opStatus[o] = "QUEUED"
    BY <1>1, <2>1 DEF RowsInv, RowsAgree
  <2> QED BY <2>1, <2>2 DEF Current
<1> HIDE DEF o
<1>3. /\ \A x \in Res : resStatus'[x] = IF x = r THEN "STARTED" ELSE resStatus[x]
      /\ \A p \in Op : opStatus'[p] = IF p = o THEN "RUNNING" ELSE opStatus[p]
  BY <1>1, <1>2 DEF TypeOK
<1>4. \A x \in Res : x[1] \in Op
  BY DEF Res
<1>5. \A x \in Res : x[1] = o /\ resStatus[x] \in {"RESERVED", "STARTED"} => x = r
  BY <1>2 DEF RowsInv, RowsAgree
<1>6. r[1] = o
  BY DEF o
<1>7. RowsAgree'
  <2>1. \A x \in Res : resStatus'[x] \in {"RESERVED", "STARTED"} => x = Current(x[1])'
    BY <1>1, <1>3 DEF RowsInv, RowsAgree, Current
  <2>2. ASSUME NEW p \in Op PROVE
          /\ opStatus'[p] = "QUEUED" <=> \E x \in Res : x[1] = p /\ resStatus'[x] = "RESERVED"
          /\ opStatus'[p] = "RUNNING" => resStatus'[Current(p)'] = "STARTED"
          /\ opStatus'[p] = "WAITING" => attempts'[p] < MaxAttempts
    <3>1. CASE p = o
      BY <1>1, <1>2, <1>3, <1>5, <3>1 DEF Current
    <3>2. CASE p # o
      <4>1. opStatus'[p] = opStatus[p] /\ \A x \in Res : x[1] = p => resStatus'[x] = resStatus[x]
        BY <1>3, <1>6, <3>2
      <4>2. Current(p)' = Current(p) /\ (attempts[p] >= 1 => Current(p) \in Res /\ Current(p)[1] = p)
        BY <1>1 DEF Current, Res, Attempt, TypeOK
      <4>3. opStatus[p] = "RUNNING" => attempts[p] >= 1
        BY DEF RowsInv, AttemptsNamed
      <4> QED BY <1>1, <4>1, <4>2, <4>3 DEF RowsInv, RowsAgree
    <3> QED BY <3>1, <3>2
  <2> QED BY <2>1, <2>2 DEF RowsAgree
<1>8. StartedRuns'
  BY <1>3, <1>4, <1>6 DEF RowsInv, StartedRuns
<1>9. AttemptsNamed'
  BY <1>1, <1>2, <1>3 DEF RowsInv, AttemptsNamed, OperationStatus
<1>10. CancelledRunDrained' /\ ActiveRunAdmits'
  BY <1>1, <1>3 DEF RowsInv, CancelledRunDrained, ActiveRunAdmits
<1> QED BY <1>7, <1>8, <1>9, <1>10 DEF RowsInv

\* The outcome of a claimed attempt: it is no longer started, and its operation
\* has an outcome too if the attempt is its current one.
LEMMA OutcomeRows ==
  ASSUME TypeOK, RowsInv, NEW r \in Res, resStatus[r] \in Claimed,
         NEW n \in {"SETTLED", "UNCERTAIN"}, resStatus' = [resStatus EXCEPT ![r] = n],
         UNCHANGED attempts,
         \/ opStatus' = opStatus /\ ~(r = Current(r[1]) /\ opStatus[r[1]] = "RUNNING")
         \/ /\ r = Current(r[1])
            /\ \E x \in {"COMPLETED", "FAILED", "UNCERTAIN"} :
                 opStatus' = [opStatus EXCEPT ![r[1]] = x],
         runStatus' # runStatus => runStatus' \notin {"ACTIVE", "CANCELLED"}
  PROVE  RowsInv'
<1> DEFINE o == r[1]
<1>1. o \in Op /\ \A x \in Res : x[1] \in Op
  BY DEF Res
<1>2. \A x \in Res : resStatus'[x] = IF x = r THEN n ELSE resStatus[x]
  BY DEF TypeOK
<1>3. \A x \in Res : resStatus'[x] = "RESERVED" <=> resStatus[x] = "RESERVED"
  BY <1>2 DEF Claimed
<1>4. \A x \in Res : resStatus'[x] = "STARTED" => resStatus[x] = "STARTED" /\ x # r
  BY <1>2
<1>5. \A x \in Res : resStatus[x] \in {"RESERVED", "STARTED"} => x = Current(x[1])
  BY DEF RowsInv, RowsAgree
<1>6. r = Current(o) => \A x \in Res : x[1] = o => resStatus'[x] \notin {"RESERVED", "STARTED"}
  BY <1>3, <1>4, <1>5 DEF Claimed
<1>7. \A p \in Op : \/ opStatus'[p] = opStatus[p]
                    \/ /\ p = o /\ r = Current(o)
                       /\ opStatus'[p] \in {"COMPLETED", "FAILED", "UNCERTAIN"}
  BY <1>1 DEF TypeOK
<1>8. \A p \in Op : opStatus'[p] = "RUNNING" => p # o \/ r # Current(o)
  <2>1. CASE opStatus' = opStatus /\ ~(r = Current(o) /\ opStatus[o] = "RUNNING")
    BY <2>1
  <2>2. ASSUME NEW x \in {"COMPLETED", "FAILED", "UNCERTAIN"}, opStatus' = [opStatus EXCEPT ![o] = x]
        PROVE  opStatus'[o] # "RUNNING"
    BY <1>1, <2>2 DEF TypeOK
  <2> QED BY <2>1, <2>2
<1>9. \A p \in Op : opStatus'[p] = "RUNNING" =>
        /\ opStatus[p] = "RUNNING" /\ attempts[p] >= 1
        /\ Current(p) \in Res /\ Current(p)[1] = p /\ Current(p) # r
  <2> SUFFICES ASSUME NEW p \in Op, opStatus'[p] = "RUNNING"
               PROVE  /\ opStatus[p] = "RUNNING" /\ attempts[p] >= 1
                      /\ Current(p) \in Res /\ Current(p)[1] = p /\ Current(p) # r
    OBVIOUS
  <2>1. opStatus[p] = "RUNNING" /\ attempts[p] >= 1
    BY <1>7 DEF RowsInv, AttemptsNamed
  <2>2. Current(p) \in Res /\ Current(p)[1] = p
    BY <2>1 DEF Current, Res, Attempt, TypeOK
  <2> QED BY <1>8, <2>1, <2>2
<1> HIDE DEF o
<1>10. RowsAgree'
  <2>1. \A x \in Res : resStatus'[x] \in {"RESERVED", "STARTED"} => x = Current(x[1])'
    BY <1>3, <1>4, <1>5 DEF Current
  <2>2. ASSUME NEW p \in Op PROVE
          /\ opStatus'[p] = "QUEUED" <=> \E x \in Res : x[1] = p /\ resStatus'[x] = "RESERVED"
          /\ opStatus'[p] = "RUNNING" => resStatus'[Current(p)'] = "STARTED"
          /\ opStatus'[p] = "WAITING" => attempts'[p] < MaxAttempts
    <3>1. CASE opStatus'[p] = opStatus[p]
      <4>1. opStatus'[p] = "QUEUED" <=> \E x \in Res : x[1] = p /\ resStatus'[x] = "RESERVED"
        BY <1>3, <3>1 DEF RowsInv, RowsAgree
      <4>2. opStatus'[p] = "RUNNING" => resStatus'[Current(p)] = "STARTED"
        BY <1>2, <1>9 DEF RowsInv, RowsAgree
      <4> QED BY <3>1, <4>1, <4>2 DEF RowsInv, RowsAgree, Current
    <3>2. CASE /\ p = o /\ r = Current(o)
               /\ opStatus'[p] \in {"COMPLETED", "FAILED", "UNCERTAIN"}
      BY <1>6, <3>2
    <3> QED BY <1>7, <3>1, <3>2
  <2> QED BY <2>1, <2>2 DEF RowsAgree
<1>11. StartedRuns'
  BY <1>1, <1>4, <1>6, <1>7 DEF RowsInv, StartedRuns
<1>12. AttemptsNamed'
  BY <1>7, <1>9 DEF RowsInv, AttemptsNamed, OperationStatus
<1>13. CancelledRunDrained' /\ ActiveRunAdmits'
  BY <1>3, <1>7 DEF RowsInv, CancelledRunDrained, ActiveRunAdmits
<1> QED BY <1>10, <1>11, <1>12, <1>13 DEF RowsInv

LEMMA SettleRows ==
  ASSUME LedgerInv, RowsInv, NEW w \in Worker, Settle(w)
  PROVE  RowsInv'
<1> DEFINE r == job[w]
<1>1. r \in Res /\ resStatus[r] \in Claimed /\ TypeOK /\ r[1] \in Op
  BY DEF Settle, LedgerInv, JobsClaimed, Claimed, Res
<1>2. SettleReceipt(r, receipt[w]) /\ attempts' = attempts
  BY DEF Settle
<1> HIDE DEF r
<1>3. CASE resStatus[r] = "SETTLED"
  BY <1>2, <1>3, RowsUntouched DEF SettleReceipt, runVars, resVars
<1>4. CASE resStatus[r] # "SETTLED"
  <2>1. /\ \/ NoPublication(r)
           \/ Publishable(r) /\ PublishVector(r[1])
           \/ Publishable(r) /\ PublicationFails(r[1])
        /\ resStatus' = [resStatus EXCEPT ![r] = "SETTLED"]
    BY <1>2, <1>4 DEF SettleReceipt
  <2>2. CASE NoPublication(r)
    <3>1. runStatus' = runStatus /\ opStatus' = opStatus /\ ~Publishable(r)
      BY <2>2 DEF NoPublication
    <3>2. ~(r = Current(r[1]) /\ opStatus[r[1]] = "RUNNING")
      <4> SUFFICES ASSUME r = Current(r[1]), opStatus[r[1]] = "RUNNING" PROVE FALSE
        OBVIOUS
      <4>1. r[2] = attempts[r[1]]
        BY DEF Current
      <4>2. runStatus = "CANCELLED"
        BY <3>1, <4>1 DEF Publishable
      <4> QED BY <1>1, <4>2 DEF RowsInv, CancelledRunDrained
    <3> QED BY <1>1, <1>2, <2>1, <3>1, <3>2, OutcomeRows
  <2>3. CASE Publishable(r) /\ (PublishVector(r[1]) \/ PublicationFails(r[1]))
    <3>1. r = Current(r[1])
      BY <1>1, <2>3 DEF Publishable, Current, Res
    <3>2. \E x \in {"COMPLETED", "FAILED", "UNCERTAIN"} : opStatus' = [opStatus EXCEPT ![r[1]] = x]
      BY <2>3 DEF PublishVector, PublicationFails
    <3>3. runStatus' # runStatus => runStatus' \notin {"ACTIVE", "CANCELLED"}
      BY <2>3 DEF PublishVector, PublicationFails
    <3> QED BY <1>1, <1>2, <2>1, <3>1, <3>2, <3>3, OutcomeRows
  <2> QED BY <2>1, <2>2, <2>3
<1> QED BY <1>3, <1>4

LEMMA RecordUncertainRows ==
  ASSUME LedgerInv, RowsInv, NEW w \in Worker, RecordUncertain(w)
  PROVE  RowsInv'
<1> DEFINE r == job[w]
<1>1. r \in Res /\ resStatus[r] \in Claimed /\ TypeOK /\ r[1] \in Op
  BY DEF RecordUncertain, LedgerInv, JobsClaimed, Claimed, Res
<1>2. UncertainOutcome(r) /\ attempts' = attempts
  BY DEF RecordUncertain
<1> HIDE DEF r
<1>3. CASE resStatus[r] = "SETTLED"
  BY <1>2, <1>3, RowsUntouched DEF UncertainOutcome
<1>4. CASE resStatus[r] # "SETTLED"
  <2>1. /\ resStatus' = [resStatus EXCEPT ![r] = "UNCERTAIN"]
        /\ opStatus' = IF attempts[r[1]] = r[2] /\ opStatus[r[1]] # "CANCELLED"
                       THEN [opStatus EXCEPT ![r[1]] = "UNCERTAIN"] ELSE opStatus
        /\ runStatus' # runStatus => runStatus' \notin {"ACTIVE", "CANCELLED"}
    BY <1>2, <1>4 DEF UncertainOutcome
  <2>2. r = Current(r[1]) <=> attempts[r[1]] = r[2]
    BY <1>1 DEF Current, Res
  <2>3. CASE attempts[r[1]] = r[2] /\ opStatus[r[1]] # "CANCELLED"
    <3>1. \E x \in {"COMPLETED", "FAILED", "UNCERTAIN"} : opStatus' = [opStatus EXCEPT ![r[1]] = x]
      BY <2>1, <2>3
    <3> QED BY <1>1, <1>2, <2>1, <2>2, <2>3, <3>1, OutcomeRows
  <2>4. CASE ~(attempts[r[1]] = r[2] /\ opStatus[r[1]] # "CANCELLED")
    <3>1. opStatus' = opStatus /\ ~(r = Current(r[1]) /\ opStatus[r[1]] = "RUNNING")
      BY <2>1, <2>2, <2>4
    <3> QED BY <1>1, <1>2, <2>1, <3>1, OutcomeRows
  <2> QED BY <2>3, <2>4
<1> QED BY <1>3, <1>4

LEMMA BystanderRows ==
  ASSUME RowsInv,
         \/ RouteRefused \/ Drain \/ Pause \/ Reconfigure
         \/ \E t \in Target : Edit(t) \/ ChangeAccess(t) \/ ReadTarget(t)
         \/ \E w \in Worker, r \in Res : SkipDelivery(w, r) \/ RefuseDelivery(w, r) \/ DeliveryRaises(w, r)
         \/ \E w \in Worker : CallProvider(w) \/ SettleFails(w) \/ Crash(w)
         \/ UNCHANGED vars
  PROVE  RowsInv'
<1>1. UNCHANGED <<opStatus, attempts, resStatus>>
  BY DEF RouteRefused, Drain, Pause, ControlFrame, Reconfigure, Edit, ChangeAccess, ReadTarget, SkipDelivery,
         RefuseDelivery, DeliveryRaises, CallProvider, SettleFails, Crash, vars, opVars, resVars
<1>2. runStatus' # runStatus => runStatus' \notin {"ACTIVE", "CANCELLED"}
  BY DEF RouteRefused, Drain, Pause, ControlFrame, Reconfigure, Edit, ChangeAccess, ReadTarget, SkipDelivery,
         RefuseDelivery, DeliveryRaises, CallProvider, SettleFails, Crash, vars, runVars, Violated
<1> QED BY <1>1, <1>2, RowsUntouched

\* Rows agree after every step.
LEMMA RowsStep == LedgerInv /\ RowsInv /\ [Next]_vars => RowsInv'
<1> SUFFICES ASSUME LedgerInv, RowsInv, [Next]_vars PROVE RowsInv'
  OBVIOUS
<1>0. TypeOK
  BY DEF LedgerInv
<1>1. ASSUME NEW o \in Op, Route(o) PROVE RowsInv'
  BY <1>0, <1>1, RouteRows
<1>2. ASSUME NEW w \in Worker, NEW r \in Res, Deliver(w, r) PROVE RowsInv'
  BY <1>0, <1>2, ClaimRows, BystanderRows DEF Deliver
<1>3. ASSUME NEW w \in Worker, Execute(w) \/ Crash(w) PROVE RowsInv'
  BY <1>3, SettleRows, RecordUncertainRows, BystanderRows DEF Execute
<1>4. CASE Control
  BY <1>0, <1>4, BystanderRows, CancelRunRows, ResumeRows, CancelOperationRows, RetryRows DEF Control
<1>5. CASE \/ Drain \/ Environment \/ UNCHANGED vars
           \/ \E t \in Target : ReadTarget(t)
  BY <1>5, BystanderRows DEF Environment
<1> QED BY <1>1, <1>2, <1>3, <1>4, <1>5 DEF Next

-----------------------------------------------------------------------------
(* Provider calls *)

\* What was claimed stays claimed, and nothing is settled on the side.
ClaimsKept ==
  \A r \in Res :
    /\ resStatus[r] \in Claimed => resStatus'[r] \in Claimed
    /\ resStatus'[r] = "SETTLED" => resStatus[r] = "SETTLED"

\* A sweep reserves nothing that was claimed before.
LEMMA AdmitClaims ==
  ASSUME TypeOK, AttemptsCounted, NEW W \in SUBSET Op, NEW s, NEW os, NEW rs, NEW held, NEW limit,
         Admit(W, s, os, rs, held, limit),
         \A r \in Res : resStatus[r] \in Claimed => rs[r] \in Claimed,
         \A r \in Res : rs[r] = "SETTLED" => resStatus[r] = "SETTLED"
  PROVE  ClaimsKept
<1>1. PICK fresh :
        /\ \A r \in fresh : \E o \in Op : r = NextRes(o)
        /\ resStatus' = [r \in Res |-> IF r \in fresh THEN "RESERVED" ELSE rs[r]]
  BY DEF Admit, Affordable
<1>2. ASSUME NEW r \in Res, r \in fresh PROVE resStatus[r] = None
  <2>1. PICK o \in Op : r = NextRes(o)
    BY <1>1, <1>2
  <2>2. r[1] = o /\ r[2] = attempts[o] + 1 /\ attempts[o] \in Nat
    BY <2>1 DEF NextRes, TypeOK
  <2>3. ~(r[2] <= attempts[r[1]])
    BY <2>2
  <2> QED BY <2>3 DEF AttemptsCounted
<1> QED BY <1>1, <1>2 DEF ClaimsKept, Claimed, ReservationStatus

\* No transaction of the run's control touches a claimed reservation but to
\* give it up as uncertain.
LEMMA ControlClaims ==
  ASSUME LedgerInv, (\E o \in Op : Route(o)) \/ Control
  PROVE  ClaimsKept
<1>0. TypeOK /\ AttemptsCounted /\ Op \in SUBSET Op
  BY DEF LedgerInv
<1>1. ASSUME NEW o \in Op, Route(o) PROVE ClaimsKept
  <2>1. PICK os : Admit({o}, runStatus, os, resStatus, reserved, ceiling)
    BY <1>1 DEF Route
  <2>2. {o} \in SUBSET Op
    OBVIOUS
  <2> QED BY <1>0, <2>1, <2>2, AdmitClaims
<1>2. CASE Pause
  BY <1>2 DEF Pause, ClaimsKept
<1>3. CASE Resume
  <2>1. PICK c : Admit(Op, "ACTIVE", opStatus, resStatus, reserved, c)
    BY <1>3 DEF Resume
  <2> QED BY <1>0, <2>1, AdmitClaims
<1>4. ASSUME NEW ops
      PROVE  \A r \in Res : /\ resStatus[r] \in Claimed => ResCancelled(ops)[r] \in Claimed
                            /\ ResCancelled(ops)[r] = "SETTLED" => resStatus[r] = "SETTLED"
  BY DEF ResCancelled, Unused, Claimed
<1>5. CASE CancelRun
  <2>1. PICK ops : resStatus' = ResCancelled(ops)
    BY <1>5 DEF CancelRun
  <2> QED BY <1>4, <2>1 DEF ClaimsKept
<1>6. ASSUME NEW o \in Op, CancelOperation(o) PROVE ClaimsKept
  <2>1. Admit(Op, runStatus, OpsCancelled({o}), ResCancelled({o}), HeldAfterRelease({o}), ceiling)
    BY <1>6 DEF CancelOperation
  <2> QED BY <1>0, <1>4, <2>1, AdmitClaims
<1>7. ASSUME NEW o \in Op, RetryOperation(o) PROVE ClaimsKept
  <2>1. PICK os : Admit(Op, runStatus, os, Abandoned(o), reserved, ceiling)
    BY <1>7 DEF RetryOperation
  <2>2. \A r \in Res : /\ resStatus[r] \in Claimed => Abandoned(o)[r] \in Claimed
                       /\ Abandoned(o)[r] = "SETTLED" => resStatus[r] = "SETTLED"
    BY DEF Abandoned, Claimed
  <2> QED BY <1>0, <2>1, <2>2, AdmitClaims
<1> QED BY <1>1, <1>2, <1>3, <1>5, <1>6, <1>7 DEF Control

\* Steps that make no call and settle nothing; workers may give up.
LEMMA CallsKept ==
  ASSUME CallsInv, ClaimsKept, UNCHANGED <<settled, historyVars>>,
         \A v \in Worker : \/ pc'[v] \in {"idle", "failed"}
                           \/ pc'[v] = pc[v] /\ job'[v] = job[v] /\ receipt'[v] = receipt[v]
  PROVE  CallsInv'
<1>1. calls' = calls /\ billed' = billed /\ settled' = settled
  BY DEF historyVars
<1>2. \A r \in Res :
       /\ resStatus'[r] \notin Claimed => calls'[r] = 0
       /\ calls'[r] <= 1 /\ billed'[r] <= Amount[r]
       /\ calls'[r] = 0 => billed'[r] = 0
       /\ resStatus'[r] = "SETTLED" => calls'[r] = 1 /\ settled'[r] = billed'[r]
  BY <1>1 DEF CallsInv, ClaimsKept
<1>3. \A w \in Worker :
       /\ pc'[w] = "calling" => calls'[job'[w]] = 0
       /\ pc'[w] = "answered" => calls'[job'[w]] = 1 /\ receipt'[w] = billed'[job'[w]]
  BY <1>1 DEF CallsInv
<1>4. \A v, w \in Worker :
        pc'[v] = "calling" /\ pc'[w] = "calling" /\ job'[v] = job'[w] => v = w
  BY DEF CallsInv
<1> QED BY <1>2, <1>3, <1>4 DEF CallsInv

\* A claim gives a worker a reservation nobody has called for.
LEMMA ClaimCalls ==
  ASSUME LedgerInv, CallsInv, NEW w \in Worker, NEW r \in Res, Claim(w, r)
  PROVE  CallsInv'
<1>1. /\ resStatus[r] = "RESERVED" /\ pc[w] = "idle"
      /\ resStatus' = [resStatus EXCEPT ![r] = "STARTED"]
      /\ pc' = [pc EXCEPT ![w] = "calling"] /\ job' = [job EXCEPT ![w] = r]
      /\ UNCHANGED <<settled, receipt, calls, billed>>
  BY DEF Claim, Claimable, historyVars
<1>2. calls[r] = 0
  BY <1>1 DEF CallsInv, Claimed
<1>3. \A x \in Res : resStatus'[x] = IF x = r THEN "STARTED" ELSE resStatus[x]
  BY <1>1 DEF LedgerInv, TypeOK
<1>4. \A v \in Worker : /\ v = w => pc'[v] = "calling" /\ job'[v] = r
                        /\ v # w => pc'[v] = pc[v] /\ job'[v] = job[v]
  BY <1>1 DEF LedgerInv, TypeOK
<1>5. \A v \in Worker : pc[v] = "calling" => job[v] # r
  BY <1>1 DEF LedgerInv, JobsClaimed
<1>6. \A x \in Res :
       /\ resStatus'[x] \notin Claimed => calls'[x] = 0
       /\ resStatus'[x] = "SETTLED" => calls'[x] = 1 /\ settled'[x] = billed'[x]
  BY <1>1, <1>3 DEF CallsInv, Claimed
<1>7. \A v \in Worker :
       /\ pc'[v] = "calling" => calls'[job'[v]] = 0
       /\ pc'[v] = "answered" => calls'[job'[v]] = 1 /\ receipt'[v] = billed'[job'[v]]
  BY <1>1, <1>2, <1>4 DEF CallsInv
<1>8. \A u, v \in Worker :
        pc'[u] = "calling" /\ pc'[v] = "calling" /\ job'[u] = job'[v] => u = v
  BY <1>4, <1>5 DEF CallsInv
<1> QED BY <1>1, <1>6, <1>7, <1>8 DEF CallsInv

\* The one call; a usable answer reports what was billed.
LEMMA CallProviderCalls ==
  ASSUME LedgerInv, CallsInv, NEW w \in Worker, CallProvider(w)
  PROVE  CallsInv'
<1> DEFINE r == job[w]
<1>1. TypeOK /\ pc[w] = "calling"
  BY DEF LedgerInv, CallProvider
<1>2. r \in Res /\ resStatus[r] \in Claimed /\ Amount[r] \in Nat /\ calls[r] = 0 /\ billed[r] = 0
  BY <1>1, AmountType DEF LedgerInv, JobsClaimed, Claimed, CallsInv
<1>3a. PICK bill \in 0..Amount[r] : \E usage \in {bill, Amount[r] + 1, None} :
        /\ calls' = [calls EXCEPT ![r] = @ + 1]
        /\ billed' = [billed EXCEPT ![r] = @ + bill]
        /\ pc' = [pc EXCEPT ![w] = IF ValidUsage(r, usage) THEN "answered" ELSE "failed"]
        /\ receipt' = [receipt EXCEPT ![w] = IF ValidUsage(r, usage) THEN usage ELSE 0]
  BY DEF CallProvider
<1>3. PICK usage \in {bill, Amount[r] + 1, None} :
        /\ calls' = [calls EXCEPT ![r] = @ + 1]
        /\ billed' = [billed EXCEPT ![r] = @ + bill]
        /\ pc' = [pc EXCEPT ![w] = IF ValidUsage(r, usage) THEN "answered" ELSE "failed"]
        /\ receipt' = [receipt EXCEPT ![w] = IF ValidUsage(r, usage) THEN usage ELSE 0]
  BY <1>3a
<1>4. UNCHANGED <<resStatus, settled, job>>
  BY DEF CallProvider, resVars
<1> HIDE DEF r
<1>5. /\ \A x \in Res : x # r => calls'[x] = calls[x] /\ billed'[x] = billed[x]
      /\ calls'[r] = 1 /\ billed'[r] = bill /\ bill \in Nat /\ bill <= Amount[r]
  BY <1>1, <1>2, <1>3 DEF TypeOK
<1>6. \A v \in Worker : v # w => pc'[v] = pc[v] /\ receipt'[v] = receipt[v]
  BY <1>1, <1>3 DEF TypeOK
<1>7. /\ pc'[w] \in {"answered", "failed"}
      /\ pc'[w] = "answered" => receipt'[w] = bill
  BY <1>1, <1>2, <1>3, <1>5 DEF TypeOK, ValidUsage
<1>8. \A v \in Worker : v # w /\ pc[v] \in {"calling", "answered"} => job[v] \in Res /\ job[v] # r
  <2> SUFFICES ASSUME NEW v \in Worker, v # w, pc[v] \in {"calling", "answered"}
               PROVE  job[v] \in Res /\ job[v] # r
    OBVIOUS
  <2>1. CASE pc[v] = "calling"
    BY <1>1, <2>1 DEF CallsInv, LedgerInv, JobsClaimed, r
  <2>2. CASE pc[v] = "answered"
    BY <1>2, <2>2 DEF CallsInv, LedgerInv, JobsClaimed
  <2> QED BY <2>1, <2>2
<1>9. resStatus[r] # "SETTLED"
  BY <1>2 DEF CallsInv
<1>10. \A x \in Res :
       /\ resStatus'[x] \notin Claimed => calls'[x] = 0
       /\ calls'[x] <= 1 /\ billed'[x] <= Amount[x]
       /\ calls'[x] = 0 => billed'[x] = 0
       /\ resStatus'[x] = "SETTLED" => calls'[x] = 1 /\ settled'[x] = billed'[x]
  BY <1>2, <1>4, <1>5, <1>9 DEF CallsInv
<1>11. ASSUME NEW v \in Worker
       PROVE  /\ pc'[v] = "calling" => calls'[job'[v]] = 0
              /\ pc'[v] = "answered" => calls'[job'[v]] = 1 /\ receipt'[v] = billed'[job'[v]]
  <2>1. CASE v = w
    BY <1>4, <1>5, <1>7, <2>1 DEF r
  <2>2. CASE v # w
    BY <1>4, <1>5, <1>6, <1>8, <2>2 DEF CallsInv
  <2> QED BY <2>1, <2>2
<1>12. \A u, v \in Worker :
         pc'[u] = "calling" /\ pc'[v] = "calling" /\ job'[u] = job'[v] => u = v
  BY <1>4, <1>6, <1>7 DEF CallsInv
<1> QED BY <1>10, <1>11, <1>12 DEF CallsInv

\* What settles is what was billed.
LEMMA SettleCalls ==
  ASSUME LedgerInv, CallsInv, NEW w \in Worker, Settle(w)
  PROVE  CallsInv'
<1> DEFINE r == job[w]
<1>1. /\ r \in Res /\ resStatus[r] \in Claimed /\ TypeOK
      /\ calls[r] = 1 /\ receipt[w] = billed[r]
  BY DEF Settle, LedgerInv, JobsClaimed, Claimed, CallsInv
<1>2. /\ SettleReceipt(r, receipt[w]) /\ UNCHANGED historyVars
      /\ \A v \in Worker : \/ pc'[v] \in {"idle", "failed"}
                           \/ pc'[v] = pc[v] /\ job'[v] = job[v] /\ receipt'[v] = receipt[v]
  BY <1>1 DEF Settle, Finish, TypeOK
<1> HIDE DEF r
<1>3. CASE resStatus[r] = "SETTLED"
  BY <1>2, <1>3, CallsKept DEF SettleReceipt, resVars, ClaimsKept
<1>4. CASE resStatus[r] # "SETTLED"
  <2>1. /\ resStatus' = [resStatus EXCEPT ![r] = "SETTLED"]
        /\ settled' = [settled EXCEPT ![r] = receipt[w]]
    BY <1>2, <1>4 DEF SettleReceipt
  <2>2. \A x \in Res : /\ x = r => resStatus'[x] = "SETTLED" /\ settled'[x] = billed[x]
                       /\ x # r => resStatus'[x] = resStatus[x] /\ settled'[x] = settled[x]
    BY <1>1, <2>1 DEF TypeOK
  <2>3. calls' = calls /\ billed' = billed
    BY <1>2 DEF historyVars
  <2>4. \A x \in Res :
       /\ resStatus'[x] \notin Claimed => calls'[x] = 0
       /\ calls'[x] <= 1 /\ billed'[x] <= Amount[x]
       /\ calls'[x] = 0 => billed'[x] = 0
       /\ resStatus'[x] = "SETTLED" => calls'[x] = 1 /\ settled'[x] = billed'[x]
    BY <1>1, <2>2, <2>3 DEF CallsInv, Claimed
  <2>5. \A v \in Worker :
       /\ pc'[v] = "calling" => calls'[job'[v]] = 0
       /\ pc'[v] = "answered" => calls'[job'[v]] = 1 /\ receipt'[v] = billed'[job'[v]]
    BY <1>2, <2>3 DEF CallsInv
  <2>6. \A u, v \in Worker :
          pc'[u] = "calling" /\ pc'[v] = "calling" /\ job'[u] = job'[v] => u = v
    BY <1>2 DEF CallsInv
  <2> QED BY <2>4, <2>5, <2>6 DEF CallsInv
<1> QED BY <1>3, <1>4

LEMMA BystanderCalls ==
  ASSUME LedgerInv, CallsInv,
         \/ RouteRefused \/ Drain \/ Reconfigure
         \/ \E t \in Target : Edit(t) \/ ChangeAccess(t) \/ ReadTarget(t)
         \/ \E w \in Worker, r \in Res : SkipDelivery(w, r) \/ RefuseDelivery(w, r) \/ DeliveryRaises(w, r)
         \/ \E w \in Worker : SettleFails(w) \/ RecordUncertain(w) \/ Crash(w)
         \/ UNCHANGED vars
  PROVE  CallsInv'
<1>1. UNCHANGED <<settled, historyVars>>
  BY DEF RouteRefused, Drain, Reconfigure, Edit, ChangeAccess, ReadTarget, SkipDelivery,
         RefuseDelivery, DeliveryRaises, SettleFails, RecordUncertain, Crash, vars, resVars
<1>2. \A v \in Worker : \/ pc'[v] \in {"idle", "failed"}
                        \/ pc'[v] = pc[v] /\ job'[v] = job[v] /\ receipt'[v] = receipt[v]
  BY DEF RouteRefused, Drain, Reconfigure, Edit, ChangeAccess, ReadTarget, SkipDelivery, RefuseDelivery, DeliveryRaises,
         SettleFails, RecordUncertain, Finish, Crash, vars, workerVars, LedgerInv, TypeOK
<1>3. ASSUME NEW w \in Worker, RecordUncertain(w) PROVE ClaimsKept
  <2>1. job[w] \in Res /\ resStatus[job[w]] \in Claimed /\ TypeOK
    BY <1>3 DEF RecordUncertain, LedgerInv, JobsClaimed, Claimed
  <2>2. resStatus' = resStatus \/ resStatus' = [resStatus EXCEPT ![job[w]] = "UNCERTAIN"]
    BY <1>3 DEF RecordUncertain, UncertainOutcome
  <2> QED BY <2>1, <2>2 DEF ClaimsKept, Claimed, TypeOK
<1>4. ClaimsKept
  <2>1. CASE resStatus' = resStatus
    BY <2>1 DEF ClaimsKept
  <2> QED BY <1>3, <2>1 DEF RouteRefused, Drain, Reconfigure, Edit, ChangeAccess, ReadTarget, SkipDelivery,
             RefuseDelivery, DeliveryRaises, SettleFails, Crash, vars, resVars
<1> QED BY <1>1, <1>2, <1>4, CallsKept

\* Calls and charges stay accounted for after every step.
LEMMA CallsStep == LedgerInv /\ CallsInv /\ [Next]_vars => CallsInv'
<1> SUFFICES ASSUME LedgerInv, CallsInv, [Next]_vars PROVE CallsInv'
  OBVIOUS
<1>1. CASE (\E o \in Op : Route(o)) \/ Control
  <2>1. UNCHANGED <<settled, workerVars, historyVars>>
    BY <1>1 DEF Route, Control, Pause, CancelRun, Resume, CancelOperation, RetryOperation, ControlFrame
  <2> QED BY <1>1, <2>1, ControlClaims, CallsKept DEF workerVars
<1>2. ASSUME NEW w \in Worker, NEW r \in Res, Deliver(w, r) PROVE CallsInv'
  BY <1>2, ClaimCalls, BystanderCalls DEF Deliver
<1>3. ASSUME NEW w \in Worker, Execute(w) \/ Crash(w) PROVE CallsInv'
  BY <1>3, CallProviderCalls, SettleCalls, BystanderCalls DEF Execute
<1>4. CASE \/ Drain \/ Environment \/ UNCHANGED vars
           \/ \E t \in Target : ReadTarget(t)
  BY <1>4, BystanderCalls DEF Environment
<1> QED BY <1>1, <1>2, <1>3, <1>4 DEF Next

-----------------------------------------------------------------------------
(* The whole invariant *)

LEMMA RunInit == Init => RunInv
<1> SUFFICES ASSUME Init PROVE RunInv
  OBVIOUS
<1>1. /\ opStatus = [o \in Op |-> None] /\ attempts = [o \in Op |-> 0]
      /\ resStatus = [r \in Res |-> None] /\ calls = [r \in Res |-> 0]
      /\ billed = [r \in Res |-> 0] /\ pc = [w \in Worker |-> "idle"]
      /\ runStatus = "ACTIVE"
  BY DEF Init
<1>2. RowsInv
  BY <1>1 DEF RowsInv, RowsAgree, StartedRuns, AttemptsNamed, CancelledRunDrained, ActiveRunAdmits,
              OperationStatus, ReservationStatus
<1>3. \A r \in Res : Amount[r] \in Nat
  BY AmountType
<1>4. CallsInv
  BY <1>1, <1>3 DEF CallsInv, ReservationStatus
<1> QED BY <1>2, <1>4, LedgerInit DEF RunInv

LEMMA RunInvariant == Spec => []RunInv
<1>1. RunInv /\ [Next]_vars => RunInv'
  BY LedgerStep, RowsStep, CallsStep DEF RunInv
<1> QED BY RunInit, <1>1, PTL DEF Spec

\* What the provider billed sums to what settled and at most what is lent.
LEMMA Covered == RunInv => SpendCovered
<1> SUFFICES ASSUME RunInv PROVE SpendCovered
  OBVIOUS
<1> DEFINE lent == {r \in Res : resStatus[r] \in {"STARTED", "UNCERTAIN"}}
           spent == SettledRes \cup lent
           idle == Res \ spent
<1>1. TypeOK /\ CallsInv /\ accounted = Total(settled, SettledRes)
  BY DEF RunInv, LedgerInv, LedgerBalanced, SettledRes
<1>2. /\ SettledRes \cap lent = {} /\ spent \cap idle = {} /\ spent \cup idle = Res
      /\ SettledRes \subseteq Res /\ lent \subseteq Res /\ spent \subseteq Res /\ idle \subseteq Res
  BY DEF SettledRes
<1>3. \A r \in Res : billed[r] \in Nat /\ Amount[r] \in Nat
  BY <1>1, AmountType DEF TypeOK
<1>4. \A r \in SettledRes : billed[r] = settled[r]
  BY <1>1 DEF CallsInv, SettledRes
<1>5. \A r \in lent : billed[r] <= Amount[r]
  BY <1>1 DEF CallsInv
<1>6. \A r \in idle : billed[r] = 0
  BY <1>1 DEF CallsInv, SettledRes, Claimed
<1> HIDE DEF lent, spent, idle
<1>7. IsFiniteSet(SettledRes) /\ IsFiniteSet(lent) /\ IsFiniteSet(spent) /\ IsFiniteSet(idle)
  BY <1>2, ResFinite
<1>8. Total(billed, Res) = Total(billed, spent) + Total(billed, idle)
  BY <1>2, <1>3, <1>7, TotalUnion
<1>9. Total(billed, idle) = 0
  BY <1>6, TotalZero
<1>10. Total(billed, spent) = Total(billed, SettledRes) + Total(billed, lent)
  <2>1. \A r \in SettledRes \cup lent : billed[r] \in Nat
    BY <1>2, <1>3
  <2> QED BY <1>2, <1>7, <2>1, TotalUnion DEF spent
<1>11. Total(billed, SettledRes) = accounted
  BY <1>1, <1>4, TotalSame
<1>12. Total(billed, lent) <= Total(Amount, lent)
  <2>1. \A r \in lent : billed[r] \in Nat /\ Amount[r] \in Nat
    BY <1>2, <1>3
  <2> QED BY <1>5, <1>7, <2>1, TotalMonotone
<1>13. /\ Total(billed, lent) \in Nat /\ Total(Amount, lent) \in Nat
       /\ Total(billed, SettledRes) \in Nat
  BY <1>2, <1>3, <1>7, TotalType
<1>14. Total(billed, Res) <= accounted + Total(Amount, lent)
  BY <1>8, <1>9, <1>10, <1>11, <1>12, <1>13
<1> QED BY <1>14 DEF SpendCovered, lent

\* A vector is stored by the transaction that settles its reservation, and by no
\* other step.
LEMMA Publishing ==
  ASSUME LedgerInv, [Next]_vars, NEW t \in Target, vector'[t] \notin {vector[t], None}
  PROVE  \E w \in Worker :
           LET r == job[w] IN
           /\ r \in Res /\ resStatus[r] # "SETTLED" /\ resStatus'[r] = "SETTLED"
           /\ Publishable(r) /\ TargetUnchanged(r[1])
           /\ r[1] = <<t, vector'[t]>> /\ text' = text
<1>1. PICK w \in Worker : Settle(w)
  <2>1. \/ vector'[t] \in {vector[t], None}
        \/ \E w \in Worker : Settle(w)
    <3>1. ASSUME NEW u \in Target, Edit(u) PROVE vector'[t] \in {vector[t], None}
      BY <3>1 DEF Edit, LedgerInv, TypeOK
    <3>2. CASE vector' = vector
      BY <3>2
    <3> QED BY <3>1, <3>2 DEF Next, ReadTarget, Route, Deliver, SkipDelivery, RefuseDelivery, DeliveryRaises, Claim,
                Execute, CallProvider, SettleFails, RecordUncertain, Crash, Drain, Control, Pause,
                CancelRun, Resume, CancelOperation, RetryOperation, ControlFrame, Environment,
                RouteRefused, Reconfigure, ChangeAccess, targetVars, vars
  <2> QED BY <2>1
<1> DEFINE r == job[w]
<1>2. r \in Res /\ r[1] \in Op /\ TypeOK
  BY <1>1 DEF Settle, LedgerInv, JobsClaimed, Res
<1>3. SettleReceipt(r, receipt[w]) /\ text' = text
  BY <1>1 DEF Settle
<1> HIDE DEF r
<1>4. resStatus[r] # "SETTLED" /\ resStatus' = [resStatus EXCEPT ![r] = "SETTLED"]
  BY <1>3 DEF SettleReceipt
<1>5. Publishable(r) /\ PublishVector(r[1])
  BY <1>3, <1>4 DEF SettleReceipt, NoPublication, PublicationFails
<1>6. TargetUnchanged(r[1]) /\ vector' = [vector EXCEPT ![r[1][1]] = r[1][2]]
  BY <1>5 DEF PublishVector
<1>7. t = r[1][1] /\ vector'[t] = r[1][2] /\ r[1] = <<r[1][1], r[1][2]>>
  BY <1>2, <1>6 DEF TypeOK, Op
<1>8. resStatus'[r] = "SETTLED"
  BY <1>2, <1>4 DEF TypeOK
<1> QED BY <1>2, <1>3, <1>4, <1>5, <1>6, <1>7, <1>8 DEF r

\* Who is cancelled stays so.
LEMMA Cancelling ==
  ASSUME RunInv, [Next]_vars
  PROVE  /\ runStatus = "CANCELLED" => runStatus' = "CANCELLED"
         /\ \A o \in Op : opStatus[o] = "CANCELLED" => opStatus'[o] = "CANCELLED"
<1> DEFINE Final == /\ runStatus = "CANCELLED" => runStatus' = "CANCELLED"
                    /\ \A o \in Op : opStatus[o] = "CANCELLED" => opStatus'[o] = "CANCELLED"
<1>0. TypeOK
  BY DEF RunInv, LedgerInv
<1>1. ASSUME NEW W, NEW s, NEW os, NEW rs, NEW held, NEW limit, Admit(W, s, os, rs, held, limit),
             runStatus = "CANCELLED" => s = "CANCELLED",
             \A o \in Op : opStatus[o] = "CANCELLED" => os[o] = "CANCELLED"
      PROVE  Final
  <2>1. PICK admitted :
          /\ \A o \in admitted : s = "ACTIVE" /\ os[o] = "WAITING"
          /\ s # "ACTIVE" => runStatus' = s
          /\ opStatus' = [o \in Op |-> IF o \in admitted THEN "QUEUED" ELSE os[o]]
    <3> DEFINE waiting  == {o \in W : s = "ACTIVE" /\ os[o] = "WAITING"}
               eligible == {o \in waiting : approved /\ attempts[o] < MaxAttempts}
               admitted == Affordable(eligible, limit - accounted - held)
    <3>1. admitted \subseteq eligible
      BY DEF Affordable
    <3> HIDE DEF admitted
    <3>2. /\ runStatus' = IF waiting # {} /\ ~approved THEN Violated(s)
                          ELSE IF admitted # eligible THEN "BUDGET_EXHAUSTED" ELSE s
          /\ opStatus' = [o \in Op |-> IF o \in admitted THEN "QUEUED" ELSE os[o]]
      BY <1>1 DEF Admit, admitted
    <3>3. s # "ACTIVE" => waiting = {} /\ eligible = {} /\ admitted = {}
      BY <3>1
    <3> QED BY <3>1, <3>2, <3>3
  <2> QED BY <1>1, <2>1
<1>2. ASSUME NEW o \in Op, Route(o) PROVE Final
  <2> DEFINE os == IF opStatus[o] = None THEN [opStatus EXCEPT ![o] = "WAITING"] ELSE opStatus
  <2>1. Admit({o}, runStatus, os, resStatus, reserved, ceiling)
    BY <1>2 DEF Route
  <2>2. \A p \in Op : opStatus[p] = "CANCELLED" => os[p] = "CANCELLED"
    BY <1>0 DEF TypeOK, OperationStatus
  <2> HIDE DEF os
  <2> QED BY <1>1, <2>1, <2>2
<1>3. CASE Resume
  <2>1. PICK c : Admit(Op, "ACTIVE", opStatus, resStatus, reserved, c) /\ runStatus # "CANCELLED"
    BY <1>3 DEF Resume
  <2> QED BY <1>1, <2>1
<1>4. ASSUME NEW o \in Op, CancelOperation(o) PROVE Final
  <2>1. Admit(Op, runStatus, OpsCancelled({o}), ResCancelled({o}), HeldAfterRelease({o}), ceiling)
    BY <1>4 DEF CancelOperation
  <2>2. \A p \in Op : opStatus[p] = "CANCELLED" => OpsCancelled({o})[p] = "CANCELLED"
    BY DEF OpsCancelled
  <2> QED BY <1>1, <2>1, <2>2
<1>5. ASSUME NEW o \in Op, RetryOperation(o) PROVE Final
  <2> DEFINE os == [opStatus EXCEPT ![o] = "WAITING"]
  <2>1. Admit(Op, runStatus, os, Abandoned(o), reserved, ceiling) /\ opStatus[o] # "CANCELLED"
    BY <1>5 DEF RetryOperation, Retryable
  <2>2. \A p \in Op : opStatus[p] = "CANCELLED" => os[p] = "CANCELLED"
    BY <1>0, <2>1 DEF TypeOK
  <2> HIDE DEF os
  <2> QED BY <1>1, <2>1, <2>2
<1>6. CASE Pause \/ CancelRun
  BY <1>6 DEF Pause, CancelRun, OpsCancelled
<1>7. ASSUME NEW w \in Worker, NEW r \in Res, Deliver(w, r) PROVE Final
  <2>1. CASE Claim(w, r)
    <3>1. resStatus[r] = "RESERVED" /\ opStatus' = [opStatus EXCEPT ![r[1]] = "RUNNING"]
          /\ runStatus' = runStatus
      BY <2>1 DEF Claim, Claimable, runVars
    <3>2. opStatus[r[1]] = "QUEUED"
      BY <3>1 DEF RunInv, RowsInv, RowsAgree, Res
    <3> QED BY <1>0, <3>1, <3>2 DEF TypeOK
  <2>2. CASE SkipDelivery(w, r) \/ RefuseDelivery(w, r) \/ DeliveryRaises(w, r)
    BY <2>2 DEF SkipDelivery, RefuseDelivery, DeliveryRaises, runVars, opVars, Violated
  <2> QED BY <1>7, <2>1, <2>2 DEF Deliver
<1>8. ASSUME NEW w \in Worker, Execute(w) \/ Crash(w) PROVE Final
  <2>1. CASE Settle(w)
    <3>1. SettleReceipt(job[w], receipt[w])
      BY <2>1 DEF Settle
    <3> QED BY <1>0, <3>1 DEF SettleReceipt, NoPublication, PublishVector, PublicationFails,
               Publishable, TypeOK, runVars
  <2>2. CASE RecordUncertain(w)
    BY <1>0, <2>2 DEF RecordUncertain, UncertainOutcome, TypeOK
  <2>3. CASE CallProvider(w) \/ SettleFails(w) \/ Crash(w)
    BY <2>3 DEF CallProvider, SettleFails, Crash, runVars, opVars
  <2> QED BY <1>8, <2>1, <2>2, <2>3 DEF Execute
<1>9. CASE \/ Drain \/ Environment \/ UNCHANGED vars
           \/ \E t \in Target : ReadTarget(t)
  BY <1>9 DEF Drain, Environment, RouteRefused, Reconfigure, Edit, ChangeAccess, ReadTarget, Violated, vars,
              runVars, opVars
<1> QED BY <1>2, <1>3, <1>4, <1>5, <1>6, <1>7, <1>8, <1>9 DEF Next, Control

\* Operations and reservations agree, so a delivery can only claim what its
\* operation still wants.
THEOREM RowsConsistent == Spec => []RowsAgree
<1>1. RunInv => RowsAgree
  BY DEF RunInv, RowsInv
<1> QED BY <1>1, RunInvariant, PTL

\* An ACTIVE run leaves nothing waiting that its transactions could admit.
THEOREM ActiveAdmits == Spec => []ActiveRunAdmits
<1>1. RunInv => ActiveRunAdmits
  BY DEF RunInv, RowsInv
<1> QED BY <1>1, RunInvariant, PTL

\* A cancelled run has nothing left that a worker could claim or be waited for.
THEOREM CancelledDrained == Spec => []CancelledRunDrained
<1>1. RunInv => CancelledRunDrained
  BY DEF RunInv, RowsInv
<1> QED BY <1>1, RunInvariant, PTL

\* However often a message is delivered and workers die, the provider is called
\* at most once for a reservation.
THEOREM OneCall == Spec => []OneCallPerReservation
<1>1. RunInv => OneCallPerReservation
  BY DEF RunInv, CallsInv, OneCallPerReservation
<1> QED BY <1>1, RunInvariant, PTL

\* What the provider billed is covered by what is accounted and what is held for
\* attempts that may have reached it.
THEOREM AllSpendCovered == Spec => []SpendCovered
<1> QED BY Covered, RunInvariant, PTL

\* The receipt transaction stores a vector only for the text its target has now.
THEOREM PublishesCurrent == Spec => PublishedIsCurrent
<1>1. ASSUME LedgerInv, [Next]_vars
      PROVE  [\A t \in Target : vector'[t] \notin {vector[t], None} => vector'[t] = text'[t]]_vars
  <2> SUFFICES ASSUME NEW t \in Target, vector'[t] \notin {vector[t], None}
               PROVE  vector'[t] = text'[t]
    OBVIOUS
  <2>1. PICK w \in Worker :
          /\ TargetUnchanged(job[w][1]) /\ job[w][1] = <<t, vector'[t]>> /\ text' = text
    BY <1>1, Publishing
  <2> QED BY <2>1 DEF TargetUnchanged
<1> QED BY <1>1, LedgerInvariant, PTL DEF Spec, PublishedIsCurrent

\* It stores one only for the current attempt of an operation that nobody has
\* cancelled, in a run that nobody has cancelled, and settles it with that.
THEOREM OnlyCurrentPublishes == Spec => OnlyCurrentAttemptPublishes
<1>1. ASSUME LedgerInv, [Next]_vars
      PROVE  [\A t \in Target : vector'[t] \notin {vector[t], None} =>
                LET o == <<t, vector'[t]>>
                IN /\ runStatus # "CANCELLED" /\ opStatus[o] # "CANCELLED"
                   /\ resStatus[Current(o)] # "SETTLED" /\ resStatus'[Current(o)] = "SETTLED"]_vars
  <2> SUFFICES ASSUME NEW t \in Target, vector'[t] \notin {vector[t], None}
               PROVE  LET o == <<t, vector'[t]>>
                      IN /\ runStatus # "CANCELLED" /\ opStatus[o] # "CANCELLED"
                         /\ resStatus[Current(o)] # "SETTLED" /\ resStatus'[Current(o)] = "SETTLED"
    OBVIOUS
  <2>1. PICK w \in Worker :
          /\ job[w] \in Res /\ resStatus[job[w]] # "SETTLED" /\ resStatus'[job[w]] = "SETTLED"
          /\ Publishable(job[w]) /\ job[w][1] = <<t, vector'[t]>>
    BY <1>1, Publishing
  <2>2. job[w] = Current(job[w][1])
    BY <2>1 DEF Publishable, Current, Res
  <2> QED BY <2>1, <2>2 DEF Publishable
<1> QED BY <1>1, LedgerInvariant, PTL DEF Spec, OnlyCurrentAttemptPublishes

\* No late answer, failure, retry or routing takes a cancellation back.
THEOREM CancelledForGood == Spec => CancellationFinal
<1>1. ASSUME RunInv, [Next]_vars
      PROVE  [/\ runStatus = "CANCELLED" => runStatus' = "CANCELLED"
              /\ \A o \in Op : opStatus[o] = "CANCELLED" => opStatus'[o] = "CANCELLED"]_vars
  BY <1>1, Cancelling
<1> QED BY <1>1, RunInvariant, PTL DEF Spec, CancellationFinal
=============================================================================
