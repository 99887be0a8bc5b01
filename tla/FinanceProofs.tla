---------------------------- MODULE FinanceProofs ----------------------------
(***************************************************************************)
(* Theorems about money, for any number of payments, refunds, earnings,    *)
(* adjustments and batches.  Payments: nothing is handed over unpaid, a    *)
(* lead is sold once and for good, a reported capture is kept, and what is *)
(* marked refunded was refunded.  Payouts: an earning is what its plan and *)
(* its adjustments say, is in one batch, and a batch is paid once.         *)
(***************************************************************************)
EXTENDS Payments, Payouts, FiniteSetTheorems, WellFoundedInduction, TLAPS

-----------------------------------------------------------------------------
(***************************************************************************)
(* Sums over finite sets, as MapThenSumSet takes them: by a recursive      *)
(* function on the subsets, from an element that CHOOSE picks.  The        *)
(* provers have no induction; what stands in for it is that every nonempty *)
(* set of naturals has a least element (WFMin).                            *)
(***************************************************************************)

SumOf(f, S) == MapThenSumSet(LAMBDA x : f[x], S)

Pick(s) == CHOOSE x \in s : TRUE

\* g computes the sums of f over the subsets of S.
Sums(f, S, g) ==
    g = [s \in SUBSET S |-> IF s = {} THEN 0 ELSE f[Pick(s)] + g[s \ {Pick(s)}]]

LEMMA SumIsChosen ==
    ASSUME NEW f, NEW S
    PROVE  SumOf(f, S) = (CHOOSE g : Sums(f, S, g))[S]
  BY DEF SumOf, Sums, MapThenSumSet, MapThenFoldSet, Pick

LEMMA PickIn ==
    ASSUME NEW s, s # {}
    PROVE  Pick(s) \in s
  BY DEF Pick

LEMMA LeastOf ==
    ASSUME NEW T, T \subseteq Nat, T # {}
    PROVE  \E m \in T : \A k \in T : m <= k
  <1>1. PICK m \in T : \A k \in T : ~(<<k, m>> \in OpToRel(<, Nat))
    BY NatLessThanWellFounded, WFMin, Zenon
  <1>2. \A k \in T : ~(k < m)
    BY <1>1, Zenon DEF OpToRel
  <1> QED
    BY <1>2

\* A set with 0 and all successors holds every natural number.
LEMMA Inductive ==
    ASSUME NEW T, 0 \in T, \A n \in Nat : n \in T => n + 1 \in T
    PROVE  Nat \subseteq T
  <1> SUFFICES ASSUME Nat \ T # {} PROVE FALSE
    OBVIOUS
  <1>1. PICK m \in Nat \ T : \A k \in Nat \ T : m <= k
    BY LeastOf
  <1>2. m # 0 /\ m - 1 \in Nat /\ m - 1 \in T
    BY <1>1
  <1> QED
    BY <1>1, <1>2

\* What is left when an element is taken out
LEMMA TakenOut ==
    ASSUME NEW s, IsFiniteSet(s), NEW x \in s
    PROVE  /\ IsFiniteSet(s \ {x}) /\ Cardinality(s) \in Nat /\ Cardinality(s \ {x}) \in Nat
           /\ Cardinality(s) = Cardinality(s \ {x}) + 1
  <1>1. Cardinality(s) \in Nat /\ IsFiniteSet(s \ {x})
    BY FS_CardinalityType, FS_RemoveElement
  <1>2. Cardinality(s \ {x}) = Cardinality(s) - 1
    BY FS_RemoveElement
  <1>3. Cardinality(s \ {x}) \in Nat
    BY <1>1, FS_CardinalityType
  <1> QED
    BY <1>1, <1>2, <1>3

LEMMA SumsExist ==
    ASSUME NEW S, IsFiniteSet(S), NEW f, \A x \in S : f[x] \in Int
    PROVE  \E g \in [SUBSET S -> Int] : Sums(f, S, g)
  <1> DEFINE Next1(g) == [s \in SUBSET S |-> IF s = {} THEN 0 ELSE f[Pick(s)] + g[s \ {Pick(s)}]]
             Upto(n, g) == \A s \in SUBSET S : Cardinality(s) <= n => g[s] = Next1(g)[s]
             T == {n \in Nat : \E g \in [SUBSET S -> Int] : Upto(n, g)}
  <1>1. \A s \in SUBSET S : s # {} => Pick(s) \in S /\ s \ {Pick(s)} \in SUBSET S
    BY PickIn
  <1>2. \A g \in [SUBSET S -> Int] : Next1(g) \in [SUBSET S -> Int]
    BY <1>1
  <1>3. \A s \in SUBSET S : IsFiniteSet(s) /\ Cardinality(s) \in Nat /\ Cardinality(s) <= Cardinality(S)
    BY FS_Subset, FS_CardinalityType
  <1>4. 0 \in T
    <2> DEFINE z == [s \in SUBSET S |-> 0]
    <2>1. z \in [SUBSET S -> Int]
      OBVIOUS
    <2>2. \A s \in SUBSET S : Cardinality(s) <= 0 => s = {}
      BY <1>3, FS_EmptySet
    <2>3. Upto(0, z)
      BY <2>2
    <2> QED
      BY <2>1, <2>3
  <1>5. ASSUME NEW n \in Nat, n \in T PROVE n + 1 \in T
    <2>1. PICK g \in [SUBSET S -> Int] : Upto(n, g)
      BY <1>5
    <2>2. ASSUME NEW s \in SUBSET S, Cardinality(s) <= n + 1
          PROVE  Next1(g)[s] = Next1(Next1(g))[s]
      <3>1. CASE s = {}
        BY <3>1
      <3>2. CASE s # {}
        <4> DEFINE u == s \ {Pick(s)}
        <4>1. u \in SUBSET S /\ Cardinality(u) <= n
          BY <1>1, <1>3, <2>2, <3>2, PickIn, TakenOut
        <4>2. Next1(g)[s] = f[Pick(s)] + g[u] /\ Next1(Next1(g))[s] = f[Pick(s)] + Next1(g)[u]
          BY <3>2
        <4>3. g[u] = Next1(g)[u]
          BY <2>1, <4>1
        <4> QED
          BY <4>2, <4>3
      <3> QED
        BY <3>1, <3>2
    <2> DEFINE h == Next1(g)
    <2>3. h \in [SUBSET S -> Int]
      BY <1>2
    <2>4. \A s \in SUBSET S : Cardinality(s) <= n + 1 => h[s] = Next1(h)[s]
      BY <2>2
    <2> HIDE DEF h, Next1
    <2> QED
      BY <2>3, <2>4
  <1>6. Nat \subseteq T
    <2> HIDE DEF T
    <2> QED
      BY <1>4, <1>5, Inductive
  <1>7. PICK g \in [SUBSET S -> Int] : Upto(Cardinality(S), g)
    BY <1>3, <1>6
  <1>8. \A s \in SUBSET S : g[s] = Next1(g)[s]
    BY <1>3, <1>7
  <1>9. g = Next1(g)
    <2> DEFINE h == Next1(g)
    <2>1. h \in [SUBSET S -> Int] /\ \A s \in SUBSET S : g[s] = h[s]
      BY <1>2, <1>8
    <2> HIDE DEF h, Next1
    <2>2. g = h
      BY <2>1
    <2> QED
      BY <2>2 DEF h
  <1> QED
    BY <1>9 DEF Sums

\* Two solutions agree on the subsets that both are about.
LEMMA SumsAgree ==
    ASSUME NEW S, NEW R, IsFiniteSet(S), IsFiniteSet(R), NEW f, NEW h,
           NEW g1, NEW g2, Sums(f, S, g1), Sums(h, R, g2),
           \A x \in S \cap R : f[x] = h[x]
    PROVE  \A s \in SUBSET (S \cap R) : g1[s] = g2[s]
  <1> DEFINE T == {n \in Nat : \A s \in SUBSET (S \cap R) : Cardinality(s) = n => g1[s] = g2[s]}
  <1>1. ASSUME NEW s \in SUBSET (S \cap R)
        PROVE  /\ g1[s] = IF s = {} THEN 0 ELSE f[Pick(s)] + g1[s \ {Pick(s)}]
               /\ g2[s] = IF s = {} THEN 0 ELSE h[Pick(s)] + g2[s \ {Pick(s)}]
               /\ IsFiniteSet(s) /\ Cardinality(s) \in Nat
    <2>1. s \in SUBSET S /\ s \in SUBSET R
      OBVIOUS
    <2>2. IsFiniteSet(s) /\ Cardinality(s) \in Nat
      BY <2>1, FS_Subset, FS_CardinalityType
    <2> QED
      BY <2>1, <2>2 DEF Sums
  <1>2. 0 \in T
    BY <1>1, FS_EmptySet
  <1>3. ASSUME NEW n \in Nat, n \in T PROVE n + 1 \in T
    <2> SUFFICES ASSUME NEW s \in SUBSET (S \cap R), Cardinality(s) = n + 1 PROVE g1[s] = g2[s]
      OBVIOUS
    <2>1. s # {}
      BY FS_EmptySet
    <2> DEFINE u == s \ {Pick(s)}
    <2>2. Pick(s) \in s /\ u \in SUBSET (S \cap R)
      BY <2>1, PickIn
    <2>3. Cardinality(u) = n
      <3>1. Cardinality(u) \in Nat /\ Cardinality(s) = Cardinality(u) + 1
        BY <1>1, <2>2, TakenOut
      <3> QED
        BY <3>1
    <2>4. g1[u] = g2[u]
      BY <1>3, <2>2, <2>3
    <2> QED
      BY <1>1, <2>1, <2>2, <2>4
  <1>4. Nat \subseteq T
    <2> HIDE DEF T
    <2> QED
      BY <1>2, <1>3, Inductive
  <1> QED
    BY <1>1, <1>4

\* SumOf is a solution on its own set.
LEMMA SumSolves ==
    ASSUME NEW S, IsFiniteSet(S), NEW f, \A x \in S : f[x] \in Int
    PROVE  \E g \in [SUBSET S -> Int] : Sums(f, S, g) /\ SumOf(f, S) = g[S]
  <1> DEFINE g == CHOOSE g : Sums(f, S, g)
  <1>1. PICK h \in [SUBSET S -> Int] : Sums(f, S, h)
    BY SumsExist
  <1>2. Sums(f, S, g)
    BY <1>1
  <1>3. \A s \in SUBSET S : g[s] = h[s]
    <2>1. S \cap S = S
      OBVIOUS
    <2> HIDE DEF g
    <2> QED
      BY <1>1, <1>2, <2>1, SumsAgree
  <1>4. SumOf(f, S) = g[S]
    BY SumIsChosen
  <1> QED
    BY <1>1, <1>3, <1>4

LEMMA SumType ==
    ASSUME NEW S, IsFiniteSet(S), NEW f, \A x \in S : f[x] \in Int
    PROVE  SumOf(f, S) \in Int
  <1>1. PICK g \in [SUBSET S -> Int] : SumOf(f, S) = g[S]
    BY SumSolves
  <1>2. S \in SUBSET S
    OBVIOUS
  <1> QED
    BY <1>1, <1>2

LEMMA SumEmpty ==
    ASSUME NEW f
    PROVE  SumOf(f, {}) = 0
  <1>1. PICK g \in [SUBSET {} -> Int] : Sums(f, {}, g) /\ SumOf(f, {}) = g[{}]
    BY SumSolves, FS_EmptySet
  <1> QED
    BY <1>1 DEF Sums

LEMMA SumCongruent ==
    ASSUME NEW S, IsFiniteSet(S), NEW f, NEW h, \A x \in S : f[x] \in Int /\ h[x] = f[x]
    PROVE  SumOf(f, S) = SumOf(h, S)
  <1>1. PICK g1 \in [SUBSET S -> Int] : Sums(f, S, g1) /\ SumOf(f, S) = g1[S]
    BY SumSolves
  <1>2. PICK g2 \in [SUBSET S -> Int] : Sums(h, S, g2) /\ SumOf(h, S) = g2[S]
    BY SumSolves
  <1>3. \A s \in SUBSET (S \cap S) : g1[s] = g2[s]
    BY <1>1, <1>2, SumsAgree
  <1> QED
    BY <1>1, <1>2, <1>3

\* The sum is the value of the element it begins with and the sum of the rest.
LEMMA SumPicks ==
    ASSUME NEW S, IsFiniteSet(S), S # {}, NEW f, \A x \in S : f[x] \in Int
    PROVE  SumOf(f, S) = f[Pick(S)] + SumOf(f, S \ {Pick(S)})
  <1> DEFINE R == S \ {Pick(S)}
  <1>0. IsFiniteSet(R) /\ R \in SUBSET S
    BY FS_RemoveElement
  <1>1. PICK g1 \in [SUBSET S -> Int] : Sums(f, S, g1) /\ SumOf(f, S) = g1[S]
    BY SumSolves
  <1>2. PICK g2 \in [SUBSET R -> Int] : Sums(f, R, g2) /\ SumOf(f, R) = g2[R]
    BY <1>0, SumSolves
  <1>3. g1[R] = g2[R]
    <2>1. R \in SUBSET (S \cap R)
      OBVIOUS
    <2> HIDE DEF R
    <2> QED
      BY <1>0, <1>1, <1>2, <2>1, SumsAgree
  <1>4. g1[S] = f[Pick(S)] + g1[R]
    BY <1>1 DEF Sums
  <1> QED
    BY <1>1, <1>2, <1>3, <1>4

\* The order in which a sum is taken does not matter.
LEMMA SumTakesOut ==
    ASSUME NEW S, IsFiniteSet(S), NEW f, \A x \in S : f[x] \in Int, NEW y \in S
    PROVE  SumOf(f, S) = f[y] + SumOf(f, S \ {y})
  <1> DEFINE Any(s) == \A x \in s : SumOf(f, s) = f[x] + SumOf(f, s \ {x})
             T == {n \in Nat : \A s \in SUBSET S : Cardinality(s) = n => Any(s)}
  <1>1. \A s \in SUBSET S : IsFiniteSet(s) /\ Cardinality(s) \in Nat /\ SumOf(f, s) \in Int
    BY FS_Subset, FS_CardinalityType, SumType
  <1>2. 0 \in T
    BY <1>1, FS_EmptySet
  <1>3. ASSUME NEW n \in Nat, n \in T PROVE n + 1 \in T
    <2> SUFFICES ASSUME NEW s \in SUBSET S, Cardinality(s) = n + 1, NEW x \in s
                 PROVE  SumOf(f, s) = f[x] + SumOf(f, s \ {x})
      OBVIOUS
    <2> DEFINE p == Pick(s)
    <2>1. p \in s /\ SumOf(f, s) = f[p] + SumOf(f, s \ {p})
      BY <1>1, PickIn, SumPicks
    <2>2. CASE x = p
      BY <2>1, <2>2
    <2>3. CASE x # p
      <3>1. \A z \in s : s \ {z} \in SUBSET S /\ Cardinality(s \ {z}) = n
        <4> SUFFICES ASSUME NEW z \in s PROVE Cardinality(s \ {z}) = n
          OBVIOUS
        <4>1. Cardinality(s \ {z}) \in Nat /\ Cardinality(s) = Cardinality(s \ {z}) + 1
          BY <1>1, TakenOut
        <4> QED
          BY <4>1
      <3> DEFINE both == s \ {x, p}
      <3>2. (s \ {p}) \ {x} = both /\ (s \ {x}) \ {p} = both /\ both \in SUBSET S
        OBVIOUS
      <3>3. Any(s \ {p}) /\ Any(s \ {x})
        BY <1>3, <2>1, <3>1
      <3>4. /\ SumOf(f, s \ {p}) = f[x] + SumOf(f, both)
            /\ SumOf(f, s \ {x}) = f[p] + SumOf(f, both)
        BY <2>1, <2>3, <3>2, <3>3
      <3>5. SumOf(f, both) \in Int /\ f[x] \in Int /\ f[p] \in Int
        BY <1>1, <2>1, <3>2
      <3> QED
        BY <2>1, <3>4, <3>5
    <2> QED
      BY <2>2, <2>3
  <1>4. Nat \subseteq T
    <2> HIDE DEF T
    <2> QED
      BY <1>2, <1>3, Inductive
  <1> QED
    BY <1>1, <1>4

LEMMA SumAdds ==
    ASSUME NEW S, IsFiniteSet(S), NEW f, NEW y, y \notin S, \A x \in S \cup {y} : f[x] \in Int
    PROVE  SumOf(f, S \cup {y}) = SumOf(f, S) + f[y]
  <1>1. IsFiniteSet(S \cup {y}) /\ (S \cup {y}) \ {y} = S
    BY FS_AddElement
  <1>2. SumOf(f, S \cup {y}) = f[y] + SumOf(f, (S \cup {y}) \ {y})
    BY <1>1, SumTakesOut
  <1>3. SumOf(f, S) \in Int /\ f[y] \in Int
    BY SumType
  <1>4. SumOf(f, S \cup {y}) = f[y] + SumOf(f, S)
    BY <1>1, <1>2
  <1> QED
    BY <1>3, <1>4

\* A sum of naturals grows with its set.
LEMMA SumGrows ==
    ASSUME NEW S, IsFiniteSet(S), NEW f, \A x \in S : f[x] \in Nat, NEW R \in SUBSET S
    PROVE  SumOf(f, R) <= SumOf(f, S)
  <1> DEFINE T == {n \in Nat : \A s \in SUBSET S :
                      R \subseteq s /\ Cardinality(s \ R) = n => SumOf(f, R) <= SumOf(f, s)}
  <1>1. \A s \in SUBSET S : /\ IsFiniteSet(s) /\ SumOf(f, s) \in Int
                           /\ IsFiniteSet(s \ R) /\ Cardinality(s \ R) \in Nat
    <2>1. \A s \in SUBSET S : s \ R \in SUBSET S
      OBVIOUS
    <2>2. \A s \in SUBSET S : IsFiniteSet(s)
      BY FS_Subset
    <2>3. \A s \in SUBSET S : Cardinality(s \ R) \in Nat
      BY <2>1, <2>2, FS_CardinalityType
    <2>4. \A s \in SUBSET S : SumOf(f, s) \in Int
      BY <2>2, SumType
    <2> QED
      BY <2>1, <2>2, <2>3, <2>4
  <1>2. 0 \in T
    <2> SUFFICES ASSUME NEW s \in SUBSET S, R \subseteq s, Cardinality(s \ R) = 0
                 PROVE  SumOf(f, R) <= SumOf(f, s)
      OBVIOUS
    <2>1. s = R
      BY <1>1, FS_EmptySet
    <2> QED
      BY <1>1, <2>1
  <1>3. ASSUME NEW n \in Nat, n \in T PROVE n + 1 \in T
    <2> SUFFICES ASSUME NEW s \in SUBSET S, R \subseteq s, Cardinality(s \ R) = n + 1
                 PROVE  SumOf(f, R) <= SumOf(f, s)
      OBVIOUS
    <2>1. PICK x : x \in s \ R
      BY FS_EmptySet
    <2>2. /\ Cardinality((s \ R) \ {x}) \in Nat
          /\ Cardinality(s \ R) = Cardinality((s \ R) \ {x}) + 1
      BY <1>1, <2>1, TakenOut
    <2>3. (s \ R) \ {x} = (s \ {x}) \ R /\ R \subseteq s \ {x} /\ s \ {x} \in SUBSET S
      BY <2>1
    <2>4. SumOf(f, R) <= SumOf(f, s \ {x})
      <3>1. Cardinality((s \ {x}) \ R) \in Nat /\ n + 1 = Cardinality((s \ {x}) \ R) + 1
        BY <2>2, <2>3
      <3>2. Cardinality((s \ {x}) \ R) = n
        BY <3>1
      <3> QED
        BY <1>3, <2>3, <3>2
    <2>5. SumOf(f, s) = f[x] + SumOf(f, s \ {x})
      <3>1. \A z \in s : f[z] \in Int
        OBVIOUS
      <3> QED
        BY <1>1, <2>1, <3>1, SumTakesOut
    <2>6. /\ f[x] \in Nat /\ SumOf(f, R) \in Int /\ SumOf(f, s) \in Int
          /\ SumOf(f, s \ {x}) \in Int
      BY <1>1, <2>1, <2>3
    <2> QED
      BY <2>4, <2>5, <2>6
  <1>4. Nat \subseteq T
    <2> HIDE DEF T
    <2> QED
      BY <1>2, <1>3, Inductive
  <1> QED
    BY <1>1, <1>4

-----------------------------------------------------------------------------
(* Payments *)

\* Types.  The amounts of refunds are not bounded here: that takes the sum of
\* the refunds made before.
IntentStatus == {"requires_payment_method", "requires_action", "processing", "requires_capture",
                 "succeeded", "canceled"}

Typed ==
    /\ status \in [Payments -> {"none"} \cup PaymentStatus]
    /\ captured \in [Payments -> 0 .. Amount]
    /\ purchase \in [Payments -> {"NONE"} \cup LeadPurchaseStatus]
    /\ subject \in [Subjects -> {"AVAILABLE", "RESERVED", "PURCHASED", "PENDING_PAYMENT",
                                 "PENDING_PROVIDER_CONFIRMATION", "CANCELLED",
                                 "APPROVED_PENDING_PAYMENT", "APPROVED"}]
    /\ job \in [Subjects -> {"NONE", "CREATED", "AWAITING_APPROVAL", "IN_PROGRESS",
                             "COMPLETED", "CANCELLED"}]
    /\ rstatus \in [Refunds -> {"none"} \cup RefundStatus]
    /\ pc \in [Payments -> {"idle", "create", "capture"} \cup Refunds]
    /\ intent \in [Payments -> {"none"} \cup IntentStatus]
    /\ received \in [Payments -> 0 .. Amount]
    /\ refund \in [Refunds -> {"none"} \cup RefundStatus]
    /\ answer \in [Refunds -> {"none"} \cup RefundStatus]

\* An event is about a payment or a refund, as its type says.
EventsAreTyped ==
    \A e \in sent :
        /\ e.type \in {"payment_failed", "canceled", "intent", "refund"}
        /\ e.type = "refund" => e.of \in Refunds /\ e.status \in RefundStatus
        /\ e.type # "refund" =>
              /\ e.of \in Payments
              /\ e.status \in IntentStatus
        /\ e.type = "canceled" => e.status = "canceled"
        /\ e.type = "payment_failed" => e.status = "requires_payment_method"

\* Money is with Stripe exactly when the intent succeeded, and only for a payment
\* that has its row.
ReceivedKnows ==
    \A p \in Payments :
        /\ received[p] > 0 <=> intent[p] = "succeeded"
        /\ intent[p] \in {"requires_capture", "succeeded"} => status[p] # "none"
        /\ pc[p] = "capture" => intent[p] = "succeeded"

\* A success is only reported of an intent that succeeded.
SuccessIsTrue ==
    \A e \in sent : e.type = "intent" /\ e.status = "succeeded" => intent[e.of] = "succeeded"

\* While a payment is being created its subject is locked, and a lead unsold.
CreateKnows ==
    \A p \in Payments :
        pc[p] = "create" =>
            /\ status[p] = "none"
            /\ Purpose(Subject[p]) = "lead" =>
                  Unpurchased(Subject[p]) /\ subject[Subject[p]] = "AVAILABLE"
            /\ \A q \in Payments : pc[q] = "create" /\ Subject[q] = Subject[p] => q = p

\* A lead's payment exists together with its purchase, and a lead has one.
OnePurchase ==
    \A p \in Payments :
        Purpose(Subject[p]) = "lead" =>
            /\ status[p] = "none" <=> purchase[p] = "NONE"
            /\ \A q \in Payments :
                  Subject[q] = Subject[p] /\ q # p => purchase[p] = "NONE" \/ purchase[q] = "NONE"

\* A refund is of a payment that exists.
RefundKnows ==
    \A r \in Refunds : rstatus[r] # "none" \/ pc[Of[r]] = r => status[Of[r]] # "none"

HandedInv ==
    /\ Typed /\ EventsAreTyped /\ ReceivedKnows /\ SuccessIsTrue
    /\ RefundKnows /\ CreateKnows /\ OnePurchase /\ SettledWasPaid

-----------------------------------------------------------------------------
(* Statuses and purposes *)

LEMMA Statuses ==
  /\ StripeStatus["requires_payment_method"] = "created"
  /\ StripeStatus["requires_action"] = "requires_action"
  /\ StripeStatus["processing"] = "authorized"
  /\ StripeStatus["requires_capture"] = "authorized"
  /\ StripeStatus["succeeded"] = "captured"
  /\ StripeStatus["canceled"] = "canceled"
  BY DEF StripeStatus

LEMMA Purposes ==
  ASSUME Typed, NEW s \in Subjects
  PROVE  /\ \/ Purpose(s) = "lead" /\ subject[s] \in {"AVAILABLE", "RESERVED", "PURCHASED"}
            \/ Purpose(s) = "quote" /\ subject[s] \in {"APPROVED_PENDING_PAYMENT", "APPROVED"}
            \/ Purpose(s) = "booking" /\ subject[s] \in {"PENDING_PAYMENT",
                                            "PENDING_PROVIDER_CONFIRMATION", "CANCELLED"}
         /\ subject[s] = Settled[Purpose(s)] <=>
               subject[s] \in {"PENDING_PROVIDER_CONFIRMATION", "APPROVED", "PURCHASED"}
  <1>1. \/ Purpose(s) = "lead" /\ subject[s] \in {"AVAILABLE", "RESERVED", "PURCHASED"}
        \/ Purpose(s) = "quote" /\ subject[s] \in {"APPROVED_PENDING_PAYMENT", "APPROVED"}
        \/ Purpose(s) = "booking" /\ subject[s] \in {"PENDING_PAYMENT",
                                        "PENDING_PROVIDER_CONFIRMATION", "CANCELLED"}
    BY DEF Typed, Purpose
  <1>2. /\ Settled["lead"] = "PURCHASED" /\ Settled["quote"] = "APPROVED"
        /\ Settled["booking"] = "PENDING_PROVIDER_CONFIRMATION"
    BY DEF Settled
  <1> QED
    BY <1>1, <1>2

\* What a subject's status may become
Moves == {<<"AVAILABLE", "RESERVED">>, <<"RESERVED", "PURCHASED">>, <<"RESERVED", "AVAILABLE">>,
          <<"PENDING_PAYMENT", "PENDING_PROVIDER_CONFIRMATION">>,
          <<"PENDING_PAYMENT", "CANCELLED">>, <<"PENDING_PROVIDER_CONFIRMATION", "CANCELLED">>,
          <<"APPROVED_PENDING_PAYMENT", "APPROVED">>}

Moved(s) == subject'[s] = subject[s] \/ <<subject[s], subject'[s]>> \in Moves

LEMMA SettleMoves ==
  ASSUME Typed, NEW p \in Payments, Settle(p), NEW s \in Subjects
  PROVE  Moved(s)
  <1>1. /\ Settled["lead"] = "PURCHASED" /\ Settled["quote"] = "APPROVED"
        /\ Settled["booking"] = "PENDING_PROVIDER_CONFIRMATION"
        /\ Unsettled["lead"] = "RESERVED" /\ Unsettled["quote"] = "APPROVED_PENDING_PAYMENT"
        /\ Unsettled["booking"] = "PENDING_PAYMENT"
    BY DEF Settled, Unsettled
  <1>2. CASE s # Subject[p]
    BY <1>2 DEF Settle, Moved, Typed
  <1>3. CASE s = Subject[p]
    <2>1. subject'[s] = Settled[Purpose(s)]
      BY <1>3 DEF Settle, Typed
    <2>2. subject[s] = Unsettled[Purpose(s)] \/ subject[s] = Settled[Purpose(s)]
      BY <1>3 DEF Settle, CanSettle
    <2> QED
      BY <1>1, <2>1, <2>2, Purposes DEF Moved, Moves
  <1> QED
    BY <1>2, <1>3

LEMMA SubjectMoves ==
  ASSUME Typed, EventsAreTyped, CreateKnows, [Next]_vars, NEW s \in Subjects
  PROVE  Moved(s)
  <1>1. ASSUME NEW p \in Payments, CommitCreate(p) PROVE Moved(s)
    BY <1>1, SubjectAssumption DEF CommitCreate, CreateKnows, Typed, Moved, Moves
  <1>2. ASSUME NEW p \in Payments, CommitCapture(p) PROVE Moved(s)
    BY <1>2, SettleMoves DEF CommitCapture
  <1>3. ASSUME NEW e \in sent, IntentEnded(e) PROVE Moved(s)
    <2>1. e.of \in Payments /\ Release(e.of)
      BY <1>3 DEF IntentEnded, EventsAreTyped
    <2> QED
      BY <2>1, SubjectAssumption DEF Release, Typed, Moved, Moves
  <1>4. ASSUME NEW e \in sent, IntentChanged(e) PROVE Moved(s)
    <2>1. e.of \in Payments /\ (Settle(e.of) \/ UNCHANGED subject)
      BY <1>4 DEF IntentChanged, EventsAreTyped
    <2> QED
      BY <2>1, SettleMoves DEF Moved
  <1>5. ASSUME NEW t \in Subjects, BookingEnds(t) PROVE Moved(s)
    BY <1>5 DEF BookingEnds, Typed, Moved, Moves
  <1>6. ASSUME UNCHANGED subject PROVE Moved(s)
    BY <1>6 DEF Moved
  <1>7. ASSUME NEW p \in Payments,
               \/ Attempts(p) \/ PaymentFails(p) \/ Pays(p) \/ IntentCanceled(p)
               \/ BeginCreate(p) \/ Abort(p)
               \/ \E a \in 1 .. Amount : BeginCapture(p, a)
        PROVE  UNCHANGED subject
    BY <1>7 DEF Attempts, PaymentFails, Pays, IntentCanceled, BeginCreate, Abort, BeginCapture, database
  <1>8. ASSUME NEW r \in Refunds, RefundEnds(r) \/ BeginRefund(r) \/ CommitRefund(r)
        PROVE  UNCHANGED subject
    BY <1>8 DEF RefundEnds, BeginRefund, CommitRefund, database
  <1>9. ASSUME NEW e \in sent, Ignored(e) \/ RefundChanged(e) PROVE UNCHANGED subject
    BY <1>9 DEF Ignored, RefundChanged, database
  <1>10. ASSUME NEW t \in Subjects, WorkMoves(t) PROVE UNCHANGED subject
    BY <1>10 DEF WorkMoves
  <1>11. CASE UNCHANGED vars
    BY <1>11, <1>6 DEF vars
  <1> QED
    BY <1>1, <1>2, <1>3, <1>4, <1>5, <1>6, <1>7, <1>8, <1>9, <1>10, <1>11 DEF Next, Webhook

\* What a payment pays for never changes its kind.
LEMMA PurposeIsKept ==
  ASSUME Typed, NEW s \in Subjects, Moved(s)
  PROVE  Purpose(s)' = Purpose(s)
  BY Purposes DEF Moved, Moves, Purpose, Typed

\* SettledWasPaid in terms of the statuses themselves
PaidForm ==
    \A s \in Subjects :
        (\/ subject[s] \in {"PENDING_PROVIDER_CONFIRMATION", "APPROVED", "PURCHASED"}
         \/ Purpose(s) = "booking" /\ job[s] # "NONE") => PaidFor(s)

LEMMA SettledIs == Typed => (SettledWasPaid <=> PaidForm)
  BY Purposes DEF SettledWasPaid, PaidForm

LEMMA SettledIsNext == Typed' => (SettledWasPaid' <=> PaidForm')
  BY SettledIs, PTL

\* What settlement changes
LEMMA SettleChanges ==
  ASSUME Typed, NEW p \in Payments, Settle(p)
  PROVE  /\ \A s \in Subjects : s # Subject[p] => subject'[s] = subject[s] /\ job'[s] = job[s]
         /\ \A q \in Payments : q # p => purchase'[q] = purchase[q]
         /\ purchase'[p] = IF Purpose(Subject[p]) = "lead" THEN "PAID" ELSE purchase[p]
         /\ subject' \in [Subjects -> {"AVAILABLE", "RESERVED", "PURCHASED", "PENDING_PAYMENT",
                              "PENDING_PROVIDER_CONFIRMATION", "CANCELLED",
                              "APPROVED_PENDING_PAYMENT", "APPROVED"}]
         /\ job' \in [Subjects -> {"NONE", "CREATED", "AWAITING_APPROVAL", "IN_PROGRESS",
                                   "COMPLETED", "CANCELLED"}]
         /\ purchase' \in [Payments -> {"NONE"} \cup LeadPurchaseStatus]
         /\ ~SubjectLocked(Subject[p])
  <1>1. \A s \in Subjects : s # Subject[p] => subject'[s] = subject[s] /\ job'[s] = job[s]
    BY DEF Settle, Typed
  <1>2. /\ \A q \in Payments : q # p => purchase'[q] = purchase[q]
        /\ purchase'[p] = IF Purpose(Subject[p]) = "lead" THEN "PAID" ELSE purchase[p]
        /\ purchase' \in [Payments -> {"NONE"} \cup LeadPurchaseStatus]
    BY DEF Settle, Typed, LeadPurchaseStatus
  <1>3. subject' \in [Subjects -> {"AVAILABLE", "RESERVED", "PURCHASED", "PENDING_PAYMENT",
                         "PENDING_PROVIDER_CONFIRMATION", "CANCELLED",
                         "APPROVED_PENDING_PAYMENT", "APPROVED"}]
    <2>1. \A s \in Subjects : Moved(s)
      BY SettleMoves
    <2>2. \E v : subject' = [subject EXCEPT ![Subject[p]] = v]
      BY DEF Settle
    <2>3. DOMAIN subject' = Subjects /\ subject' = [s \in Subjects |-> subject'[s]]
      BY <2>2 DEF Typed
    <2> QED
      BY <2>1, <2>3 DEF Moved, Moves, Typed
  <1>4. job' \in [Subjects -> {"NONE", "CREATED", "AWAITING_APPROVAL", "IN_PROGRESS",
                             "COMPLETED", "CANCELLED"}]
    BY DEF Settle, Typed
  <1>5. ~SubjectLocked(Subject[p])
    BY DEF Settle, CanSettle
  <1> QED
    BY <1>1, <1>2, <1>3, <1>4, <1>5

LEMMA TypedNext == HandedInv /\ [Next]_vars => Typed' /\ EventsAreTyped'
  <1> SUFFICES ASSUME HandedInv, [Next]_vars PROVE Typed' /\ EventsAreTyped'
    OBVIOUS
  <1>a. Typed /\ EventsAreTyped /\ CreateKnows
    BY DEF HandedInv
  <1> USE SubjectAssumption, RefundAssumption, AmountAssumption, Statuses
  <1> USE DEF database, stripe, PaymentStatus, RefundStatus, LeadPurchaseStatus, IntentStatus, Open
  <1>1. ASSUME NEW p \in Payments, Attempts(p) \/ PaymentFails(p) \/ IntentCanceled(p)
        PROVE  Typed' /\ EventsAreTyped'
    <2>1. Typed'
      BY <1>a, <1>1 DEF Attempts, PaymentFails, IntentCanceled, Typed
    <2>2. EventsAreTyped'
      BY <1>a, <1>1 DEF Attempts, PaymentFails, IntentCanceled, Send, EventsAreTyped
    <2> QED
      BY <2>1, <2>2
  <1>2. ASSUME NEW p \in Payments, Pays(p) PROVE Typed' /\ EventsAreTyped'
    <2>1. Typed' /\ intent'[p] \in {"requires_capture", "succeeded"}
      BY <1>a, <1>2 DEF Pays, Typed
    <2>2. EventsAreTyped'
      BY <1>a, <1>2, <2>1 DEF Pays, Send, EventsAreTyped
    <2> QED
      BY <2>1, <2>2
  <1>3. ASSUME NEW p \in Payments, BeginCreate(p) \/ CommitCreate(p) \/ Abort(p)
        PROVE  Typed' /\ EventsAreTyped'
    BY <1>a, <1>3 DEF BeginCreate, CommitCreate, Abort, Typed, EventsAreTyped
  <1>4. ASSUME NEW p \in Payments, NEW a \in 1 .. Amount, BeginCapture(p, a)
        PROVE  Typed' /\ EventsAreTyped'
    <2>1. Typed'
      BY <1>a, <1>4 DEF BeginCapture, Typed
    <2>2. EventsAreTyped'
      BY <1>a, <1>4 DEF BeginCapture, Send, EventsAreTyped
    <2> QED
      BY <2>1, <2>2
  <1>5. ASSUME NEW p \in Payments, CommitCapture(p) PROVE Typed' /\ EventsAreTyped'
    <2>1. Settle(p)
      BY <1>5 DEF CommitCapture
    <2>2. UNCHANGED <<rstatus, stripe, done>>
      BY <1>5 DEF CommitCapture
    <2>3. /\ status' \in [Payments -> {"none"} \cup PaymentStatus]
          /\ captured' \in [Payments -> 0 .. Amount]
          /\ pc' \in [Payments -> {"idle", "create", "capture"} \cup Refunds]
      BY <1>a, <1>5 DEF CommitCapture, Typed
    <2> QED
      BY <1>a, <2>1, <2>2, <2>3, SettleChanges DEF Typed, EventsAreTyped
  <1>6. ASSUME NEW r \in Refunds, RefundEnds(r) PROVE Typed' /\ EventsAreTyped'
    <2>1. Typed'
      BY <1>a, <1>6 DEF RefundEnds, Typed
    <2>2. EventsAreTyped'
      BY <1>a, <1>6 DEF RefundEnds, Send, EventsAreTyped
    <2> QED
      BY <2>1, <2>2
  <1>7. ASSUME NEW r \in Refunds, BeginRefund(r) PROVE Typed' /\ EventsAreTyped'
    <2>1. /\ \/ \E st \in RefundStatus :
                   /\ refund' = [refund EXCEPT ![r] = st]
                   /\ answer' = [answer EXCEPT ![r] = st]
                   /\ Send(r, "refund", st)
             \/ UNCHANGED <<refund, answer, sent>>
          /\ pc' = [pc EXCEPT ![Of[r]] = r]
          /\ UNCHANGED <<database, intent, received, done>>
      BY <1>7 DEF BeginRefund
    <2>2. Typed'
      BY <1>a, <2>1 DEF Typed
    <2>3. EventsAreTyped'
      BY <1>a, <2>1 DEF Send, EventsAreTyped
    <2> QED
      BY <2>2, <2>3
  <1>8. ASSUME NEW r \in Refunds, CommitRefund(r) PROVE Typed' /\ EventsAreTyped'
    <2>1. /\ pc' = [pc EXCEPT ![Of[r]] = "idle"]
          /\ rstatus' = [rstatus EXCEPT ![r] = answer[r]]
          /\ UNCHANGED <<captured, subject, job, stripe, done>>
          /\ \E v \in {status[Of[r]], "refunded", "partially_refunded"} :
                status' = [status EXCEPT ![Of[r]] = v]
          /\ \E v \in {purchase[Of[r]], "REFUNDED"} : purchase' = [purchase EXCEPT ![Of[r]] = v]
      BY <1>8 DEF CommitRefund, MarkRefunded
    <2> QED
      BY <1>a, <2>1 DEF Typed, EventsAreTyped
  <1>9. ASSUME NEW e \in sent, IntentEnded(e) PROVE Typed' /\ EventsAreTyped'
    <2>1. e.of \in Payments
      BY <1>a, <1>9 DEF IntentEnded, EventsAreTyped
    <2>2. UNCHANGED <<captured, job, rstatus, pc, stripe>>
      BY <1>9 DEF IntentEnded, Processed
    <2>3. status' \in [Payments -> {"none"} \cup PaymentStatus]
      BY <1>a, <1>9, <2>1 DEF IntentEnded, Typed
    <2>4. /\ purchase' \in [Payments -> {"NONE"} \cup LeadPurchaseStatus]
          /\ subject' \in [Subjects -> {"AVAILABLE", "RESERVED", "PURCHASED", "PENDING_PAYMENT",
                              "PENDING_PROVIDER_CONFIRMATION", "CANCELLED",
                              "APPROVED_PENDING_PAYMENT", "APPROVED"}]
      BY <1>a, <1>9, <2>1 DEF IntentEnded, Release, Typed
    <2> QED
      BY <1>a, <2>2, <2>3, <2>4 DEF Typed, EventsAreTyped
  <1>10. ASSUME NEW e \in sent, IntentChanged(e) PROVE Typed' /\ EventsAreTyped'
    <2>1. /\ e.of \in Payments
          /\ e.status \in IntentStatus
      BY <1>a, <1>10 DEF IntentChanged, EventsAreTyped
    <2>2. UNCHANGED <<rstatus, pc, stripe>>
      BY <1>10 DEF IntentChanged, Processed
    <2>3. /\ status' \in [Payments -> {"none"} \cup PaymentStatus]
          /\ captured' \in [Payments -> 0 .. Amount]
      BY <1>a, <1>10, <2>1 DEF IntentChanged, AmountReceived, Typed
    <2>4. Settle(e.of) \/ UNCHANGED <<purchase, subject, job>>
      BY <1>10 DEF IntentChanged
    <2> QED
      BY <1>a, <2>1, <2>2, <2>3, <2>4, SettleChanges DEF Typed, EventsAreTyped
  <1>11. ASSUME NEW e \in sent, RefundChanged(e) PROVE Typed' /\ EventsAreTyped'
    <2>1. e.of \in Refunds /\ e.status \in RefundStatus
      BY <1>a, <1>11 DEF RefundChanged, EventsAreTyped
    <2>2. /\ rstatus' = [rstatus EXCEPT ![e.of] = e.status]
          /\ UNCHANGED <<captured, subject, job, pc, stripe>>
      BY <1>11 DEF RefundChanged, Processed
    <2>3. /\ \E v \in {status[Of[e.of]], "refunded", "partially_refunded"} :
                status' = [status EXCEPT ![Of[e.of]] = v]
          /\ \E v \in {purchase[Of[e.of]], "REFUNDED"} :
                purchase' = [purchase EXCEPT ![Of[e.of]] = v]
      BY <1>a, <1>11, <2>1 DEF RefundChanged, MarkRefunded, Typed
    <2> QED
      BY <1>a, <2>1, <2>2, <2>3 DEF Typed, EventsAreTyped
  <1>12. ASSUME NEW s \in Subjects, BookingEnds(s) \/ WorkMoves(s)
         PROVE  Typed' /\ EventsAreTyped'
    BY <1>a, <1>12 DEF BookingEnds, WorkMoves, Typed, EventsAreTyped
  <1>13. CASE (\E e \in sent : Ignored(e)) \/ UNCHANGED vars
    BY <1>a, <1>13 DEF Ignored, vars, Typed, EventsAreTyped
  <1> QED
    BY <1>1, <1>2, <1>3, <1>4, <1>5, <1>6, <1>7, <1>8, <1>9, <1>10, <1>11, <1>12, <1>13
       DEF Next, Webhook

\* Money stays with Stripe, and a payment's row in the database.
LEMMA StripeNext ==
  HandedInv /\ [Next]_vars =>
      /\ ReceivedKnows' /\ SuccessIsTrue'
      /\ \A p \in Payments : received[p] > 0 => received'[p] > 0
      /\ \A p \in Payments : status[p] # "none" => status'[p] # "none"
  <1> DEFINE Lasting == /\ \A p \in Payments : received[p] > 0 => received'[p] > 0
                     /\ \A p \in Payments : status[p] # "none" => status'[p] # "none"
             Goal == ReceivedKnows' /\ SuccessIsTrue' /\ Lasting
  <1> SUFFICES ASSUME HandedInv, [Next]_vars PROVE Goal
    OBVIOUS
  <1>a. Typed /\ EventsAreTyped /\ ReceivedKnows /\ SuccessIsTrue /\ CreateKnows
    BY DEF HandedInv
  <1> USE SubjectAssumption, RefundAssumption, AmountAssumption, Statuses
  <1> USE DEF database, stripe, Open, IntentStatus
  <1>1. ASSUME NEW p \in Payments, Attempts(p) \/ PaymentFails(p) \/ IntentCanceled(p) PROVE Goal
    <2>1. ReceivedKnows' /\ Lasting
      BY <1>a, <1>1 DEF Attempts, PaymentFails, IntentCanceled, ReceivedKnows, Typed
    <2>2. SuccessIsTrue'
      BY <1>a, <1>1 DEF Attempts, PaymentFails, IntentCanceled, Send, SuccessIsTrue, EventsAreTyped, Typed
    <2> QED
      BY <2>1, <2>2
  <1>2. ASSUME NEW p \in Payments, Pays(p) PROVE Goal
    <2>1. ReceivedKnows' /\ Lasting
      BY <1>a, <1>2 DEF Pays, ReceivedKnows, Typed
    <2>2. SuccessIsTrue'
      BY <1>a, <1>2 DEF Pays, Send, SuccessIsTrue, EventsAreTyped, Typed
    <2> QED
      BY <2>1, <2>2
  <1>3. ASSUME NEW p \in Payments, BeginCreate(p) \/ CommitCreate(p) \/ Abort(p) PROVE Goal
    <2>1. ReceivedKnows' /\ Lasting
      BY <1>a, <1>3 DEF BeginCreate, CanCreate, CommitCreate, Abort, ReceivedKnows, Typed
    <2>2. SuccessIsTrue'
      BY <1>a, <1>3 DEF BeginCreate, CommitCreate, Abort, SuccessIsTrue, EventsAreTyped, Typed
    <2> QED
      BY <2>1, <2>2
  <1>4. ASSUME NEW p \in Payments, NEW a \in 1 .. Amount, BeginCapture(p, a) PROVE Goal
    <2>1. ReceivedKnows' /\ Lasting
      BY <1>a, <1>4 DEF BeginCapture, ReceivedKnows, Typed
    <2>2. SuccessIsTrue'
      BY <1>a, <1>4 DEF BeginCapture, Send, SuccessIsTrue, EventsAreTyped, Typed
    <2> QED
      BY <2>1, <2>2
  <1>5. ASSUME NEW p \in Payments, CommitCapture(p) PROVE Goal
    <2>1. /\ pc' = [pc EXCEPT ![p] = "idle"]
          /\ status' = [status EXCEPT ![p] = "captured"]
          /\ UNCHANGED stripe
      BY <1>5 DEF CommitCapture
    <2> QED
      BY <1>a, <2>1 DEF ReceivedKnows, SuccessIsTrue, Typed
  <1>6. ASSUME NEW r \in Refunds, RefundEnds(r) PROVE Goal
    BY <1>a, <1>6 DEF RefundEnds, Send, ReceivedKnows, SuccessIsTrue, Typed
  <1>7. ASSUME NEW r \in Refunds, BeginRefund(r) PROVE Goal
    <2>1. /\ (\E st \in RefundStatus : Send(r, "refund", st)) \/ UNCHANGED sent
          /\ pc' = [pc EXCEPT ![Of[r]] = r]
          /\ UNCHANGED <<database, intent, received, done>>
      BY <1>7 DEF BeginRefund
    <2> QED
      BY <1>a, <2>1 DEF Send, ReceivedKnows, SuccessIsTrue, Typed
  <1>8. ASSUME NEW r \in Refunds, CommitRefund(r) PROVE Goal
    <2>1. /\ pc' = [pc EXCEPT ![Of[r]] = "idle"]
          /\ UNCHANGED stripe
          /\ \E v \in {status[Of[r]], "refunded", "partially_refunded"} :
                status' = [status EXCEPT ![Of[r]] = v]
      BY <1>8 DEF CommitRefund
    <2> QED
      BY <1>a, <2>1 DEF ReceivedKnows, SuccessIsTrue, Typed
  <1>9. ASSUME NEW e \in sent, IntentEnded(e) \/ IntentChanged(e) PROVE Goal
    <2>1. /\ e.of \in Payments
          /\ e.status \in IntentStatus
      BY <1>a, <1>9 DEF IntentEnded, IntentChanged, EventsAreTyped
    <2>2. /\ \E v \in {"canceled", "failed", "created", "requires_action", "authorized", "captured"} :
                status' = [status EXCEPT ![e.of] = v]
          /\ UNCHANGED <<pc, stripe>>
      BY <1>9, <2>1 DEF IntentEnded, IntentChanged, Processed
    <2> QED
      BY <1>a, <2>1, <2>2 DEF ReceivedKnows, SuccessIsTrue, Typed
  <1>10. ASSUME NEW e \in sent, RefundChanged(e) PROVE Goal
    <2>1. e.of \in Refunds
      BY <1>a, <1>10 DEF RefundChanged, EventsAreTyped
    <2>2. /\ \E v \in {status[Of[e.of]], "refunded", "partially_refunded"} :
                status' = [status EXCEPT ![Of[e.of]] = v]
          /\ UNCHANGED <<pc, stripe>>
      BY <1>a, <1>10, <2>1 DEF RefundChanged, Processed, Typed
    <2> QED
      BY <1>a, <2>1, <2>2 DEF ReceivedKnows, SuccessIsTrue, Typed
  <1>11. CASE \/ \E s \in Subjects : BookingEnds(s) \/ WorkMoves(s)
              \/ \E e \in sent : Ignored(e)
              \/ UNCHANGED vars
    <2>1. UNCHANGED <<status, pc, stripe>>
      BY <1>11 DEF BookingEnds, WorkMoves, Ignored, vars
    <2> QED
      BY <1>a, <2>1 DEF ReceivedKnows, SuccessIsTrue
  <1> QED
    BY <1>1, <1>2, <1>3, <1>4, <1>5, <1>6, <1>7, <1>8, <1>9, <1>10, <1>11 DEF Next, Webhook

LEMMA RefundNext == HandedInv /\ [Next]_vars => RefundKnows'
  <1> SUFFICES ASSUME HandedInv, [Next]_vars PROVE RefundKnows'
    OBVIOUS
  <1>a. Typed /\ EventsAreTyped /\ RefundKnows
    BY DEF HandedInv
  <1>b. \A p \in Payments : status[p] # "none" => status'[p] # "none"
    BY StripeNext
  <1>c. ASSUME \A r \in Refunds : /\ rstatus'[r] # "none" => rstatus[r] # "none" \/ pc[Of[r]] = r
                                  /\ pc'[Of[r]] = r => pc[Of[r]] = r \/ status[Of[r]] # "none"
        PROVE  RefundKnows'
    BY <1>a, <1>b, <1>c, RefundAssumption DEF RefundKnows
  <1> USE RefundAssumption DEF database, stripe
  <1>1. ASSUME NEW p \in Payments,
               \/ Attempts(p) \/ PaymentFails(p) \/ Pays(p) \/ IntentCanceled(p) \/ BeginCreate(p)
               \/ CommitCreate(p) \/ Abort(p) \/ CommitCapture(p)
               \/ \E a \in 1 .. Amount : BeginCapture(p, a)
        PROVE  RefundKnows'
    <2>1. /\ UNCHANGED rstatus
          /\ pc' = pc \/ \E v \in {"idle", "create", "capture"} : pc' = [pc EXCEPT ![p] = v]
      BY <1>1 DEF Attempts, PaymentFails, Pays, IntentCanceled, BeginCreate, CommitCreate, Abort,
                  CommitCapture, BeginCapture
    <2> QED
      BY <1>a, <1>c, <2>1 DEF Typed
  <1>2. ASSUME NEW r \in Refunds, RefundEnds(r) PROVE RefundKnows'
    BY <1>c, <1>2 DEF RefundEnds
  <1>3. ASSUME NEW r \in Refunds, BeginRefund(r) PROVE RefundKnows'
    <2>1. /\ status[Of[r]] # "none" /\ pc' = [pc EXCEPT ![Of[r]] = r] /\ UNCHANGED rstatus
      BY <1>3 DEF BeginRefund
    <2> QED
      BY <1>a, <1>c, <2>1 DEF Typed
  <1>4. ASSUME NEW r \in Refunds, CommitRefund(r) PROVE RefundKnows'
    <2>1. /\ pc[Of[r]] = r /\ pc' = [pc EXCEPT ![Of[r]] = "idle"]
          /\ rstatus' = [rstatus EXCEPT ![r] = answer[r]]
      BY <1>4 DEF CommitRefund
    <2> QED
      BY <1>a, <1>c, <2>1 DEF Typed
  <1>5. ASSUME NEW e \in sent, Webhook(e) PROVE RefundKnows'
    <2>1. /\ UNCHANGED pc
          /\ rstatus' = rstatus \/ (/\ e.type = "refund" /\ rstatus[e.of] # "none"
                                    /\ rstatus' = [rstatus EXCEPT ![e.of] = e.status])
      BY <1>5 DEF Webhook, Ignored, IntentEnded, IntentChanged, RefundChanged, Processed, Known
    <2> QED
      BY <1>a, <1>c, <2>1 DEF Typed
  <1>6. CASE (\E s \in Subjects : BookingEnds(s) \/ WorkMoves(s)) \/ UNCHANGED vars
    BY <1>c, <1>6 DEF BookingEnds, WorkMoves, vars
  <1> QED
    BY <1>1, <1>2, <1>3, <1>4, <1>5, <1>6 DEF Next

\* The purchases of leads, and what is handed over
LEMMA SaleNext ==
  HandedInv /\ [Next]_vars => CreateKnows' /\ OnePurchase' /\ SettledWasPaid'
  <1> SUFFICES ASSUME HandedInv, [Next]_vars PROVE CreateKnows' /\ OnePurchase' /\ SettledWasPaid'
    OBVIOUS
  <1> DEFINE Goal == CreateKnows' /\ OnePurchase' /\ PaidForm'
  <1>a. /\ Typed /\ EventsAreTyped /\ ReceivedKnows /\ SuccessIsTrue /\ RefundKnows
        /\ CreateKnows /\ OnePurchase /\ PaidForm
    BY SettledIs DEF HandedInv
  <1>b. SUFFICES Goal
    BY SettledIsNext, TypedNext
  <1>c. \A s \in Subjects : Purpose(s)' = Purpose(s)
    BY <1>a, SubjectMoves, PurposeIsKept
  <1>d. /\ \A p \in Payments : status[p] # "none" => status'[p] # "none"
        /\ \A s \in Subjects : PaidFor(s) => PaidFor(s)'
    BY StripeNext DEF PaidFor
  \* Steps that create no payment, sell no lead and hand nothing over unpaid
  <1> DEFINE NoCreation == /\ \A p \in Payments : pc'[p] = "create" => pc[p] = "create"
                           /\ \A p \in Payments : status'[p] # "none" => status[p] # "none"
             NoSale == /\ \A p \in Payments : purchase'[p] = "NONE" <=> purchase[p] = "NONE"
                       /\ \A s \in Subjects : subject[s] = "AVAILABLE" => subject'[s] = "AVAILABLE"
             OnlyPaid == \A s \in Subjects :
                          /\ subject'[s] \in {"PENDING_PROVIDER_CONFIRMATION", "APPROVED", "PURCHASED"}
                                => subject'[s] = subject[s] \/ PaidFor(s)
                          /\ Purpose(s) = "booking" /\ job'[s] # "NONE" => job[s] # "NONE" \/ PaidFor(s)
  <1>e. ASSUME NoCreation, NoSale PROVE CreateKnows' /\ OnePurchase'
    <2>1. CreateKnows'
      BY <1>a, <1>c, <1>d, <1>e, SubjectAssumption DEF CreateKnows, Unpurchased
    <2>2. OnePurchase'
      BY <1>a, <1>c, <1>d, <1>e, SubjectAssumption DEF OnePurchase
    <2> QED
      BY <2>1, <2>2
  <1>f. ASSUME OnlyPaid PROVE PaidForm'
    BY <1>a, <1>c, <1>d, <1>f DEF PaidForm
  <1>g. ASSUME NEW p \in Payments, Settle(p), received[p] > 0 PROVE OnlyPaid
    BY <1>a, <1>g, SettleChanges, SubjectAssumption DEF PaidFor
  <1>h. ASSUME NEW p \in Payments, Settle(p), status[p] # "none" PROVE NoSale
    <2>1. purchase[p] = "NONE" => Purpose(Subject[p]) # "lead"
      BY <1>a, <1>h DEF OnePurchase
    <2>2. \A q \in Payments : purchase'[q] = "NONE" <=> purchase[q] = "NONE"
      BY <1>a, <1>h, <2>1, SettleChanges
    <2>3. subject[Subject[p]] # "AVAILABLE"
      BY <1>a, <1>h, Purposes, SubjectAssumption DEF Settle, CanSettle, Unsettled, Settled
    <2> QED
      BY <1>a, <1>h, <2>2, <2>3, SettleChanges
  <1>i. ASSUME UNCHANGED <<purchase, subject>> PROVE NoSale
    BY <1>i
  <1>j. ASSUME UNCHANGED <<subject, job>> PROVE OnlyPaid
    BY <1>j
  <1> USE SubjectAssumption, RefundAssumption, Statuses DEF database, stripe
  <1>1. ASSUME NEW p \in Payments,
               \/ Attempts(p) \/ PaymentFails(p) \/ Pays(p) \/ IntentCanceled(p) \/ Abort(p)
               \/ \E a \in 1 .. Amount : BeginCapture(p, a)
        PROVE  Goal
    <2>1. /\ UNCHANGED database
          /\ pc' = pc \/ \E v \in {"idle", "capture"} : pc' = [pc EXCEPT ![p] = v]
      BY <1>1 DEF Attempts, PaymentFails, Pays, IntentCanceled, Abort, BeginCapture
    <2> QED
      BY <1>a, <1>e, <1>f, <1>i, <1>j, <2>1 DEF Typed
  <1>2. ASSUME NEW p \in Payments, BeginCreate(p) PROVE Goal
    <2>1. /\ UNCHANGED database /\ pc' = [pc EXCEPT ![p] = "create"]
          /\ CanCreate(p) /\ ~SubjectLocked(Subject[p])
      BY <1>2 DEF BeginCreate
    <2>2. Purchasable["lead"] = "AVAILABLE"
      BY DEF Purchasable
    <2>3. CreateKnows'
      BY <1>a, <1>c, <2>1, <2>2 DEF CreateKnows, CanCreate, SubjectLocked, Unpurchased, Typed
    <2>4. OnePurchase'
      BY <1>a, <1>c, <2>1 DEF OnePurchase
    <2> QED
      BY <1>f, <1>j, <2>1, <2>3, <2>4
  <1>3. ASSUME NEW p \in Payments, CommitCreate(p) PROVE Goal
    <2>1. /\ pc[p] = "create" /\ pc' = [pc EXCEPT ![p] = "idle"]
          /\ status' = [status EXCEPT ![p] = "created"]
          /\ UNCHANGED job
      BY <1>3 DEF CommitCreate
    <2>2. CASE Purpose(Subject[p]) = "lead"
      <3>1. /\ purchase' = [purchase EXCEPT ![p] = "PENDING_PAYMENT"]
            /\ subject' = [subject EXCEPT ![Subject[p]] = "RESERVED"]
            /\ Unpurchased(Subject[p])
        BY <1>a, <1>3, <2>2 DEF CommitCreate, CreateKnows
      <3>2. CreateKnows'
        BY <1>a, <1>c, <2>1, <3>1 DEF CreateKnows, Unpurchased, Typed
      <3>3. OnePurchase'
        BY <1>a, <1>c, <2>1, <3>1 DEF OnePurchase, Unpurchased, Typed
      <3>4. OnlyPaid
        BY <1>a, <2>1, <3>1 DEF Typed
      <3> QED
        BY <1>f, <3>2, <3>3, <3>4
    <2>3. CASE Purpose(Subject[p]) # "lead"
      <3>1. UNCHANGED <<purchase, subject>>
        BY <1>3, <2>3 DEF CommitCreate
      <3>2. CreateKnows'
        BY <1>a, <1>c, <2>1, <3>1 DEF CreateKnows, Unpurchased, Typed
      <3>3. OnePurchase'
        BY <1>a, <1>c, <2>1, <2>3, <3>1 DEF OnePurchase, Typed
      <3> QED
        BY <1>f, <1>j, <2>1, <3>1, <3>2, <3>3
    <2> QED
      BY <2>2, <2>3
  <1>4. ASSUME NEW p \in Payments, CommitCapture(p) PROVE Goal
    <2>1. /\ pc' = [pc EXCEPT ![p] = "idle"] /\ status' = [status EXCEPT ![p] = "captured"]
          /\ Settle(p) /\ received[p] > 0 /\ status[p] # "none"
      BY <1>a, <1>4 DEF CommitCapture, ReceivedKnows
    <2>2. NoCreation
      BY <1>a, <2>1 DEF Typed
    <2> QED
      BY <1>e, <1>f, <1>g, <1>h, <2>1, <2>2
  <1>5. ASSUME NEW r \in Refunds, RefundEnds(r) \/ BeginRefund(r) PROVE Goal
    <2>1. UNCHANGED database /\ (pc' = pc \/ pc' = [pc EXCEPT ![Of[r]] = r])
      BY <1>5 DEF RefundEnds, BeginRefund
    <2>2. NoCreation
      BY <1>a, <2>1 DEF Typed
    <2> QED
      BY <1>e, <1>f, <1>i, <1>j, <2>1, <2>2
  <1>6. ASSUME NEW p \in Payments, status[p] # "none",
               MarkRefunded(p), UNCHANGED <<subject, job>>,
               \A q \in Payments : pc'[q] = "create" => pc[q] = "create",
               \A q \in Payments : q # p => status'[q] = status[q]
        PROVE  Goal
    <2>1. NoCreation
      BY <1>6
    <2>2. \A q \in Payments : purchase'[q] = "NONE" <=> purchase[q] = "NONE"
      BY <1>a, <1>6 DEF MarkRefunded, OnePurchase, Typed
    <2> QED
      BY <1>e, <1>f, <1>j, <1>6, <2>1, <2>2
  <1>7. ASSUME NEW r \in Refunds, CommitRefund(r) PROVE Goal
    <2>1. /\ Of[r] \in Payments /\ status[Of[r]] # "none"
          /\ MarkRefunded(Of[r]) /\ UNCHANGED <<subject, job>>
          /\ pc' = [pc EXCEPT ![Of[r]] = "idle"]
          /\ \E v : status' = [status EXCEPT ![Of[r]] = v]
      BY <1>a, <1>7 DEF CommitRefund, RefundKnows
    <2> QED
      BY <1>a, <1>6, <2>1 DEF Typed
  <1>8. ASSUME NEW e \in sent, RefundChanged(e) PROVE Goal
    <2>1. /\ Of[e.of] \in Payments /\ status[Of[e.of]] # "none"
          /\ UNCHANGED <<subject, job, pc>>
      BY <1>a, <1>8 DEF RefundChanged, Processed, Known, EventsAreTyped, RefundKnows
    <2>2. CASE e.status = "succeeded"
      <3>1. MarkRefunded(Of[e.of]) /\ \E v : status' = [status EXCEPT ![Of[e.of]] = v]
        BY <1>8, <2>2 DEF RefundChanged
      <3> QED
        BY <1>a, <1>6, <2>1, <3>1 DEF Typed
    <2>3. CASE e.status # "succeeded"
      <3>1. UNCHANGED <<status, purchase>>
        BY <1>8, <2>3 DEF RefundChanged
      <3> QED
        BY <1>e, <1>f, <1>i, <1>j, <2>1, <3>1
    <2> QED
      BY <2>2, <2>3
  <1>9. ASSUME NEW e \in sent, IntentEnded(e) PROVE Goal
    <2>1. /\ e.of \in Payments /\ status[e.of] # "none" /\ UNCHANGED <<job, pc>>
          /\ Release(e.of) /\ \E v : status' = [status EXCEPT ![e.of] = v]
      BY <1>a, <1>9 DEF IntentEnded, Processed, Known, EventsAreTyped
    <2>2. NoCreation
      BY <1>a, <2>1 DEF Typed
    <2>3. NoSale
      BY <1>a, <2>1 DEF Release, OnePurchase, Typed
    <2>4. OnlyPaid
      BY <1>a, <2>1 DEF Release, Typed
    <2> QED
      BY <1>e, <1>f, <2>2, <2>3, <2>4
  <1>10. ASSUME NEW e \in sent, IntentChanged(e) PROVE Goal
    <2>1. /\ e.of \in Payments /\ status[e.of] # "none" /\ UNCHANGED pc
          /\ e.status \in IntentStatus
          /\ status' = [status EXCEPT ![e.of] = StripeStatus[e.status]]
      BY <1>a, <1>10 DEF IntentChanged, Processed, Known, EventsAreTyped
    <2>2. NoCreation
      BY <1>a, <2>1 DEF Typed
    <2>3. CASE e.status = "succeeded"
      <3>1. Settle(e.of) /\ received[e.of] > 0
        BY <1>a, <1>10, <2>1, <2>3 DEF IntentChanged, SuccessIsTrue, ReceivedKnows, Typed
      <3> QED
        BY <1>e, <1>f, <1>g, <1>h, <2>1, <2>2, <3>1
    <2>4. CASE e.status # "succeeded"
      <3>1. UNCHANGED <<purchase, subject, job>>
        BY <1>a, <1>10, <2>1, <2>4 DEF IntentChanged, IntentStatus, Typed
      <3> QED
        BY <1>e, <1>f, <1>i, <1>j, <2>2, <3>1
    <2> QED
      BY <2>3, <2>4
  <1>11. ASSUME NEW s \in Subjects, BookingEnds(s) \/ WorkMoves(s) PROVE Goal
    <2>1. /\ UNCHANGED <<status, purchase, pc>>
          /\ subject' = subject \/ (/\ subject[s] # "AVAILABLE"
                                    /\ subject' = [subject EXCEPT ![s] = "CANCELLED"])
          /\ job[s] = "NONE" => UNCHANGED job
          /\ \E v : job' = [job EXCEPT ![s] = v]
      BY <1>a, <1>11 DEF BookingEnds, WorkMoves, Typed
    <2>2. NoCreation /\ NoSale
      BY <1>a, <2>1 DEF Typed
    <2>3. OnlyPaid
      BY <1>a, <2>1 DEF Typed
    <2> QED
      BY <1>e, <1>f, <2>2, <2>3
  <1>12. CASE (\E e \in sent : Ignored(e)) \/ UNCHANGED vars
    <2>1. UNCHANGED database /\ UNCHANGED pc
      BY <1>12 DEF Ignored, vars
    <2> QED
      BY <1>e, <1>f, <1>i, <1>j, <2>1
  <1> QED
    BY <1>1, <1>2, <1>3, <1>4, <1>5, <1>7, <1>8, <1>9, <1>10, <1>11, <1>12 DEF Next, Webhook

LEMMA HandedInit == Init => HandedInv
  <1> SUFFICES ASSUME Init PROVE HandedInv
    OBVIOUS
  <1>0. Purchasable["lead"] = "AVAILABLE" /\ Purchasable["booking"] = "PENDING_PAYMENT"
        /\ Purchasable["quote"] = "APPROVED_PENDING_PAYMENT"
    BY DEF Purchasable
  <1>1. subject \in [Subjects -> {"AVAILABLE", "PENDING_PAYMENT", "APPROVED_PENDING_PAYMENT"}]
    BY <1>0, KindAssumption DEF Init
  <1>2. Typed
    BY <1>1, AmountAssumption DEF Init, Typed
  <1>3. EventsAreTyped /\ ReceivedKnows /\ SuccessIsTrue /\ RefundKnows /\ CreateKnows /\ OnePurchase
    BY RefundAssumption DEF Init, EventsAreTyped, ReceivedKnows, SuccessIsTrue, RefundKnows,
       CreateKnows, OnePurchase
  <1>4. PaidForm
    BY <1>1 DEF Init, PaidForm
  <1> QED
    BY <1>2, <1>3, <1>4, SettledIs DEF HandedInv

LEMMA HandedNext == HandedInv /\ [Next]_vars => HandedInv'
  BY TypedNext, StripeNext, RefundNext, SaleNext DEF HandedInv

\* Nothing is handed over unpaid and no lead is sold twice, whatever the order of
\* webhooks, captures, refunds and dying requests: an intent succeeds at Stripe
\* before anything settles, and a lead's purchase is created under the lead's lock.
THEOREM NothingUnpaid == Spec => []HandedOver
  <1>1. HandedInv => HandedOver
    BY SubjectAssumption DEF HandedInv, HandedOver, SoldOnce, OnePurchase, ReceivedKnows, Typed
  <1> QED
    BY <1>1, HandedInit, HandedNext, PTL DEF Spec

\* A sold lead stays sold: creation finds it available under its lock, and a late
\* failure only releases one that is still reserved.
THEOREM SaleIsFinal == Spec => SoldIsFinal
  <1>1. HandedInv /\ [Next]_vars =>
          [\A s \in Subjects : subject[s] = "PURCHASED" => subject'[s] = "PURCHASED"]_vars
    BY SubjectMoves DEF HandedInv, Moved, Moves
  <1> QED
    BY <1>1, HandedInit, HandedNext, PTL DEF Spec, SoldIsFinal
-----------------------------------------------------------------------------
(* CaptureIsKept *)

\* Stripe numbers its events.
Numbered ==
    /\ IsFiniteSet(sent)
    /\ \A e \in sent : e.n \in Nat /\ e.n < Cardinality(sent)
    /\ \A e, f \in sent : e.n = f.n => e = f

\* Nothing but refunds is reported of an intent after its success.
SuccessIsLast ==
    \A e, f \in sent :
        e.type = "intent" /\ e.status = "succeeded" /\ f.type # "refund" /\ f.of = e.of
            => f.n <= e.n

Success(f, p) == f.of = p /\ f.type = "intent" /\ f.status = "succeeded"

\* The success of an intent is reported, and what is captured or refunded succeeded.
SuccessReported ==
    /\ \A p \in Payments : status[p] \in Paid => intent[p] = "succeeded"
    /\ \A p \in Payments : intent[p] = "succeeded" => \E f \in sent : Success(f, p)
    /\ \A r \in Refunds : rstatus[r] # "none" \/ pc[Of[r]] = r => intent[Of[r]] = "succeeded"

KeptInv == HandedInv /\ Numbered /\ SuccessIsLast /\ SuccessReported

\* A new event has the highest number.
LEMMA SendNumbers ==
  ASSUME Numbered, NEW x, NEW type, NEW st, Send(x, type, st)
  PROVE  /\ Numbered'
         /\ \E e : /\ sent' = sent \cup {e} /\ e \notin sent
                   /\ e.of = x /\ e.type = type /\ e.status = st
                   /\ \A f \in sent : f.n < e.n
  <1> DEFINE e == [n |-> Cardinality(sent), of |-> x, type |-> type, status |-> st]
  <1>1. Cardinality(sent) \in Nat
    BY FS_CardinalityType DEF Numbered
  <1>2. /\ e.n = Cardinality(sent) /\ e.of = x /\ e.type = type /\ e.status = st
        /\ sent' = sent \cup {e}
    BY DEF Send
  <1> HIDE DEF e
  <1>3. \A f \in sent : f.n < e.n /\ f.n \in Nat
    BY <1>2 DEF Numbered
  <1>4. e \notin sent
    BY <1>1, <1>2, <1>3
  <1>5. IsFiniteSet(sent') /\ Cardinality(sent') = Cardinality(sent) + 1
    BY <1>2, <1>4, FS_AddElement DEF Numbered
  <1>6. \A f \in sent' : f.n \in Nat /\ f.n < Cardinality(sent')
    BY <1>1, <1>2, <1>3, <1>5
  <1>7. \A f, g \in sent' : f.n = g.n => f = g
    BY <1>1, <1>2, <1>3 DEF Numbered
  <1> QED
    BY <1>2, <1>3, <1>4, <1>5, <1>6, <1>7 DEF Numbered

\* What a step may send: a report about a refund, or about an intent that had not
\* succeeded; and an intent succeeds with the report of it.
Sends ==
    \/ UNCHANGED <<sent, intent>>
    \/ UNCHANGED intent /\ \E r \in Refunds, st \in RefundStatus : Send(r, "refund", st)
    \/ \E p \in Payments, type \in {"payment_failed", "canceled", "intent"}, st \in IntentStatus :
          /\ intent[p] # "succeeded"
          /\ intent' = [intent EXCEPT ![p] = st]
          /\ st = "succeeded" => type = "intent"
          /\ Send(p, type, st)
    \/ \E p \in Payments :
          /\ intent[p] = "none"
          /\ intent' = [intent EXCEPT ![p] = "requires_payment_method"]
          /\ UNCHANGED sent

LEMMA StepSends == HandedInv /\ [Next]_vars => Sends
  <1> SUFFICES ASSUME HandedInv, [Next]_vars PROVE Sends
    OBVIOUS
  <1>a. Typed
    BY DEF HandedInv
  <1> USE DEF stripe, Open, IntentStatus
  <1>1. ASSUME NEW p \in Payments, Attempts(p) \/ PaymentFails(p) \/ IntentCanceled(p) PROVE Sends
    BY <1>1 DEF Attempts, PaymentFails, IntentCanceled, Sends
  <1>2. ASSUME NEW p \in Payments, Pays(p) PROVE Sends
    <2>1. /\ intent[p] # "succeeded" /\ Send(p, "intent", intent'[p])
          /\ intent' = [intent EXCEPT ![p] = intent'[p]] /\ intent'[p] \in IntentStatus
      BY <1>a, <1>2 DEF Pays, Typed
    <2> QED
      BY <2>1 DEF Sends
  <1>3. ASSUME NEW p \in Payments, BeginCreate(p) PROVE Sends
    <2>1. UNCHANGED sent /\ intent' = [intent EXCEPT ![p] = IF @ = "none" THEN "requires_payment_method" ELSE @]
      BY <1>3 DEF BeginCreate
    <2>2. CASE intent[p] = "none"
      BY <2>1, <2>2 DEF Sends
    <2>3. CASE intent[p] # "none"
      BY <1>a, <2>1, <2>3 DEF Sends, Typed
    <2> QED
      BY <2>2, <2>3
  <1>4. ASSUME NEW p \in Payments, CommitCreate(p) \/ CommitCapture(p) \/ Abort(p) PROVE Sends
    BY <1>4 DEF CommitCreate, CommitCapture, Abort, Sends
  <1>5. ASSUME NEW p \in Payments, NEW a \in 1 .. Amount, BeginCapture(p, a) PROVE Sends
    <2>1. \/ UNCHANGED <<sent, intent>>
          \/ /\ intent[p] # "succeeded" /\ Send(p, "intent", "succeeded")
             /\ intent' = [intent EXCEPT ![p] = "succeeded"]
      BY <1>5 DEF BeginCapture
    <2> QED
      BY <2>1 DEF Sends
  <1>6. ASSUME NEW r \in Refunds, RefundEnds(r) \/ BeginRefund(r) PROVE Sends
    <2>1. /\ UNCHANGED intent
          /\ UNCHANGED sent \/ \E st \in RefundStatus : Send(r, "refund", st)
      BY <1>6 DEF RefundEnds, BeginRefund
    <2> QED
      BY <2>1 DEF Sends
  <1>7. ASSUME NEW r \in Refunds, CommitRefund(r) PROVE Sends
    BY <1>7 DEF CommitRefund, Sends
  <1>8. ASSUME NEW e \in sent, Webhook(e) PROVE Sends
    BY <1>8 DEF Webhook, Ignored, IntentEnded, IntentChanged, RefundChanged, Processed, Sends
  <1>9. CASE (\E s \in Subjects : BookingEnds(s) \/ WorkMoves(s)) \/ UNCHANGED vars
    BY <1>9 DEF BookingEnds, WorkMoves, vars, Sends
  <1> QED
    BY <1>1, <1>2, <1>3, <1>4, <1>5, <1>6, <1>7, <1>8, <1>9 DEF Next

LEMMA NumberNext == KeptInv /\ [Next]_vars => Numbered' /\ SuccessIsLast'
  <1> SUFFICES ASSUME KeptInv, [Next]_vars PROVE Numbered' /\ SuccessIsLast'
    OBVIOUS
  <1>a. EventsAreTyped /\ SuccessIsTrue /\ Numbered /\ SuccessIsLast
    BY DEF KeptInv, HandedInv
  <1>b. ASSUME NEW x, NEW type, NEW st, Send(x, type, st),
               type = "refund" \/ intent[x] # "succeeded"
        PROVE  Numbered' /\ SuccessIsLast'
    <2>1. PICK e : /\ sent' = sent \cup {e} /\ e \notin sent
                   /\ e.of = x /\ e.type = type /\ e.status = st
                   /\ \A f \in sent : f.n < e.n
      BY <1>a, <1>b, SendNumbers
    <2>2. Numbered'
      BY <1>a, <1>b, SendNumbers
    <2>3. \A f \in sent' : f.n \in Nat
      BY <2>2 DEF Numbered
    <2>4. SuccessIsLast'
      BY <1>a, <1>b, <2>1, <2>3 DEF SuccessIsLast, SuccessIsTrue
    <2> QED
      BY <2>2, <2>4
  <1>c. CASE UNCHANGED sent
    BY <1>a, <1>c DEF Numbered, SuccessIsLast
  <1> QED
    BY <1>b, <1>c, StepSends DEF Sends, KeptInv

\* An intent that has succeeded stays so, and its success is reported.
LEMMA SuccessStays ==
  KeptInv /\ [Next]_vars =>
    \A p \in Payments : /\ intent[p] = "succeeded" => intent'[p] = "succeeded"
                        /\ intent'[p] = "succeeded" => \E f \in sent' : Success(f, p)
  <1> SUFFICES ASSUME KeptInv, [Next]_vars, NEW p \in Payments
               PROVE  /\ intent[p] = "succeeded" => intent'[p] = "succeeded"
                      /\ intent'[p] = "succeeded" => \E f \in sent' : Success(f, p)
    OBVIOUS
  <1>a. Typed /\ (intent[p] = "succeeded" => \E f \in sent : Success(f, p))
    BY DEF KeptInv, HandedInv, SuccessReported
  <1>1. sent \subseteq sent'
    BY StepSends DEF Sends, Send, KeptInv
  <1>2. CASE UNCHANGED intent
    BY <1>a, <1>1, <1>2
  <1>3. ASSUME NEW q \in Payments, NEW type \in {"payment_failed", "canceled", "intent"},
               NEW st \in IntentStatus, intent[q] # "succeeded",
               intent' = [intent EXCEPT ![q] = st], st = "succeeded" => type = "intent",
               Send(q, type, st)
        PROVE  /\ intent[p] = "succeeded" => intent'[p] = "succeeded"
               /\ intent'[p] = "succeeded" => \E f \in sent' : Success(f, p)
    <2>1. CASE p # q
      BY <1>a, <1>1, <1>3, <2>1 DEF Typed
    <2>2. CASE p = q
      <3> DEFINE f == [n |-> Cardinality(sent), of |-> q, type |-> type, status |-> st]
      <3>1. f \in sent' /\ f.of = q /\ f.type = type /\ f.status = st
        BY <1>3 DEF Send
      <3>2. intent'[p] = st
        BY <1>a, <1>3, <2>2 DEF Typed
      <3> QED
        BY <1>3, <2>2, <3>1, <3>2 DEF Success
    <2> QED
      BY <2>1, <2>2
  <1>4. ASSUME NEW q \in Payments, intent[q] = "none",
               intent' = [intent EXCEPT ![q] = "requires_payment_method"]
        PROVE  /\ intent[p] = "succeeded" => intent'[p] = "succeeded"
               /\ intent'[p] = "succeeded" => \E f \in sent' : Success(f, p)
    BY <1>a, <1>1, <1>4 DEF Typed
  <1> QED
    BY <1>2, <1>3, <1>4, StepSends DEF Sends, KeptInv

LEMMA ReportedNext == KeptInv /\ [Next]_vars => SuccessReported'
  <1> SUFFICES ASSUME KeptInv, [Next]_vars PROVE SuccessReported'
    OBVIOUS
  <1>a. Typed /\ EventsAreTyped /\ ReceivedKnows /\ SuccessIsTrue /\ SuccessReported
    BY DEF KeptInv, HandedInv
  <1>b. \A p \in Payments : /\ intent[p] = "succeeded" => intent'[p] = "succeeded"
                            /\ intent'[p] = "succeeded" => \E f \in sent' : Success(f, p)
    BY SuccessStays
  \* What becomes captured, or has a refund, belongs to an intent that succeeded.
  <1>c. ASSUME \A p \in Payments : status'[p] \in Paid => intent[p] = "succeeded",
               \A r \in Refunds : rstatus'[r] # "none" \/ pc'[Of[r]] = r => intent[Of[r]] = "succeeded"
        PROVE  SuccessReported'
    BY <1>b, <1>c, RefundAssumption DEF SuccessReported
  <1>d. ASSUME UNCHANGED status
        PROVE  \A p \in Payments : status'[p] \in Paid => intent[p] = "succeeded"
    BY <1>a, <1>d DEF SuccessReported
  <1>e. ASSUME UNCHANGED rstatus, \A r \in Refunds : pc'[Of[r]] = r => pc[Of[r]] = r
        PROVE  \A r \in Refunds : rstatus'[r] # "none" \/ pc'[Of[r]] = r => intent[Of[r]] = "succeeded"
    BY <1>a, <1>e DEF SuccessReported
  <1>f. Of \in [Refunds -> Payments] /\ {"idle", "create", "capture"} \cap Refunds = {}
    BY RefundAssumption
  <1> USE DEF database
  <1>1. ASSUME NEW p \in Payments,
               \/ Attempts(p) \/ PaymentFails(p) \/ Pays(p) \/ IntentCanceled(p)
               \/ BeginCreate(p) \/ Abort(p)
               \/ \E a \in 1 .. Amount : BeginCapture(p, a)
        PROVE  SuccessReported'
    <2>1. /\ UNCHANGED <<status, rstatus>>
          /\ pc' = pc \/ \E v \in {"idle", "create", "capture"} : pc' = [pc EXCEPT ![p] = v]
      BY <1>1 DEF Attempts, PaymentFails, Pays, IntentCanceled, BeginCreate, Abort, BeginCapture
    <2>2. \A r \in Refunds : pc'[Of[r]] = r => pc[Of[r]] = r
      BY <1>a, <1>f, <2>1 DEF Typed
    <2> QED
      BY <1>c, <1>d, <1>e, <2>1, <2>2
  <1>2. ASSUME NEW p \in Payments, CommitCreate(p) \/ CommitCapture(p) PROVE SuccessReported'
    <2>1. /\ UNCHANGED rstatus /\ pc' = [pc EXCEPT ![p] = "idle"]
          /\ \/ status' = [status EXCEPT ![p] = "created"]
             \/ status' = [status EXCEPT ![p] = "captured"] /\ pc[p] = "capture"
      BY <1>2, Statuses DEF CommitCreate, CommitCapture
    <2>2. \A r \in Refunds : pc'[Of[r]] = r => pc[Of[r]] = r
      BY <1>a, <1>f, <2>1 DEF Typed
    <2>3. \A q \in Payments : status'[q] \in Paid => intent[q] = "succeeded"
      BY <1>a, <2>1 DEF SuccessReported, ReceivedKnows, Paid, Typed
    <2> QED
      BY <1>c, <1>e, <2>1, <2>2, <2>3
  <1>3. ASSUME NEW r \in Refunds, RefundEnds(r) PROVE SuccessReported'
    <2>1. UNCHANGED <<status, rstatus, pc>>
      BY <1>3 DEF RefundEnds
    <2> QED
      BY <1>c, <1>d, <1>e, <2>1
  <1>4. ASSUME NEW r \in Refunds, BeginRefund(r) PROVE SuccessReported'
    <2>1. /\ UNCHANGED <<status, rstatus>> /\ pc' = [pc EXCEPT ![Of[r]] = r]
          /\ status[Of[r]] \in Paid
      BY <1>4 DEF BeginRefund, Paid
    <2>2. \A x \in Refunds : pc'[Of[x]] = x => pc[Of[x]] = x \/ Of[x] = Of[r]
      BY <1>a, <1>f, <2>1 DEF Typed
    <2>3. intent[Of[r]] = "succeeded"
      BY <1>a, <1>f, <2>1 DEF SuccessReported
    <2>4. \A x \in Refunds : rstatus'[x] # "none" \/ pc'[Of[x]] = x => intent[Of[x]] = "succeeded"
      BY <1>a, <2>1, <2>2, <2>3 DEF SuccessReported
    <2> QED
      BY <1>c, <1>d, <2>1, <2>4
  <1>5. ASSUME NEW r \in Refunds, intent[Of[r]] = "succeeded",
               \A x \in Refunds : pc'[Of[x]] = x => pc[Of[x]] = x,
               \E v : rstatus' = [rstatus EXCEPT ![r] = v],
               \E v : status' = [status EXCEPT ![Of[r]] = v]
        PROVE  SuccessReported'
    <2>1. \A q \in Payments : status'[q] \in Paid => intent[q] = "succeeded"
      BY <1>a, <1>f, <1>5 DEF SuccessReported, Typed
    <2>2. \A x \in Refunds : rstatus'[x] # "none" \/ pc'[Of[x]] = x => intent[Of[x]] = "succeeded"
      BY <1>a, <1>5 DEF SuccessReported, Typed
    <2> QED
      BY <1>c, <2>1, <2>2
  <1>6. ASSUME NEW r \in Refunds, CommitRefund(r) PROVE SuccessReported'
    <2>1. /\ pc[Of[r]] = r /\ pc' = [pc EXCEPT ![Of[r]] = "idle"]
          /\ \E v : rstatus' = [rstatus EXCEPT ![r] = v]
          /\ \E v : status' = [status EXCEPT ![Of[r]] = v]
      BY <1>6 DEF CommitRefund
    <2>2. \A x \in Refunds : pc'[Of[x]] = x => pc[Of[x]] = x
      BY <1>a, <1>f, <2>1 DEF Typed
    <2> QED
      BY <1>a, <1>5, <2>1, <2>2 DEF SuccessReported
  <1>7. ASSUME NEW e \in sent, RefundChanged(e) PROVE SuccessReported'
    <2>1. /\ e.of \in Refunds /\ rstatus[e.of] # "none" /\ UNCHANGED pc
          /\ \E v : rstatus' = [rstatus EXCEPT ![e.of] = v]
      BY <1>a, <1>7 DEF RefundChanged, Processed, Known, EventsAreTyped, Typed
    <2>2. \E v : status' = [status EXCEPT ![Of[e.of]] = v]
      <3>1. CASE e.status = "succeeded"
        BY <1>7, <3>1 DEF RefundChanged
      <3>2. CASE e.status # "succeeded"
        <4>1. status' = [status EXCEPT ![Of[e.of]] = status[Of[e.of]]]
          BY <1>a, <1>7, <3>2 DEF RefundChanged, Typed
        <4> QED
          BY <4>1
      <3> QED
        BY <3>1, <3>2
    <2> QED
      BY <1>a, <1>5, <2>1, <2>2 DEF SuccessReported
  <1>8. ASSUME NEW e \in sent, IntentEnded(e) \/ IntentChanged(e) PROVE SuccessReported'
    <2>1. /\ e.of \in Payments /\ e.status \in IntentStatus /\ UNCHANGED <<rstatus, pc>>
          /\ \E v : status' = [status EXCEPT ![e.of] = v]
          /\ \/ status'[e.of] \in {"canceled", "failed"}
             \/ e.type = "intent" /\ status'[e.of] = StripeStatus[e.status]
      BY <1>a, <1>8 DEF IntentEnded, IntentChanged, Processed, EventsAreTyped, Typed
    <2>2. status'[e.of] \in Paid => intent[e.of] = "succeeded"
      BY <1>a, <2>1, Statuses DEF IntentStatus, Paid, SuccessIsTrue
    <2>3. \A q \in Payments : status'[q] \in Paid => intent[q] = "succeeded"
      BY <1>a, <2>1, <2>2 DEF SuccessReported, Typed
    <2> QED
      BY <1>c, <1>e, <2>1, <2>3
  <1>9. CASE \/ \E s \in Subjects : BookingEnds(s) \/ WorkMoves(s)
             \/ \E e \in sent : Ignored(e)
             \/ UNCHANGED vars
    <2>1. UNCHANGED <<status, rstatus, pc>>
      BY <1>9 DEF BookingEnds, WorkMoves, Ignored, vars
    <2> QED
      BY <1>c, <1>d, <1>e, <2>1
  <1> QED
    BY <1>1, <1>2, <1>3, <1>4, <1>6, <1>7, <1>8, <1>9 DEF Next, Webhook

LEMMA KeptInit == Init => KeptInv
  <1> SUFFICES ASSUME Init PROVE KeptInv
    OBVIOUS
  <1>1. sent = {} /\ Numbered /\ SuccessIsLast
    BY FS_EmptySet DEF Init, Numbered, SuccessIsLast
  <1>2. SuccessReported
    BY RefundAssumption DEF Init, SuccessReported, Paid
  <1> QED
    BY <1>1, <1>2, HandedInit DEF KeptInv

LEMMA KeptNext == KeptInv /\ [Next]_vars => KeptInv'
  BY HandedNext, NumberNext, ReportedNext DEF KeptInv

\* A report about an intent that has succeeded, other than of its success, was made
\* before it.
LEMMA AllOvertaken ==
  ASSUME KeptInv, NEW e \in sent, e.type # "refund", intent[e.of] = "succeeded",
         ~(e.type = "intent" /\ e.status = "succeeded")
  PROVE  Overtaken(e)
  <1>1. e.of \in Payments
    BY DEF KeptInv, HandedInv, EventsAreTyped
  <1>2. PICK f \in sent : Success(f, e.of)
    BY <1>1 DEF KeptInv, SuccessReported
  <1>3. e.n <= f.n /\ e.n # f.n /\ e.n \in Nat /\ f.n \in Nat
    BY <1>2 DEF KeptInv, SuccessIsLast, Numbered, Success
  <1>4. e.n < f.n
    BY <1>3
  <1> QED
    BY <1>2, <1>4 DEF Overtaken, Success

LEMMA CaptureStep ==
  ASSUME KeptInv, [Next]_vars, NEW p \in Payments, Kept(p)
  PROVE  Kept(p)' \/ \E e \in done' \ done : e.of = p /\ Overtaken(e)
  <1> DEFINE Goal == Kept(p)' \/ \E e \in done' \ done : e.of = p /\ Overtaken(e)
             Lead == Purpose(Subject[p]) = "lead"
  <1> SUFFICES Goal
    OBVIOUS
  <1>a. /\ Typed /\ EventsAreTyped /\ CreateKnows /\ status[p] \in Paid
        /\ Lead => purchase[p] \in Bought
        /\ intent[p] = "succeeded"
    BY DEF KeptInv, HandedInv, SuccessReported, Kept
  <1>b. Purpose(Subject[p])' = Purpose(Subject[p])
    BY <1>a, SubjectMoves, PurposeIsKept, SubjectAssumption
  <1>c. ASSUME status'[p] \in Paid, Lead => purchase'[p] \in Bought PROVE Goal
    BY <1>b, <1>c DEF Kept
  <1>d. ASSUME UNCHANGED <<status, purchase>> PROVE Goal
    BY <1>a, <1>c, <1>d
  <1> HIDE DEF Goal
  <1> USE SubjectAssumption, RefundAssumption, Statuses DEF database, Paid, Bought
  <1>1. ASSUME NEW q \in Payments,
               \/ Attempts(q) \/ PaymentFails(q) \/ Pays(q) \/ IntentCanceled(q)
               \/ BeginCreate(q) \/ Abort(q)
               \/ \E a \in 1 .. Amount : BeginCapture(q, a)
        PROVE  Goal
    BY <1>d, <1>1 DEF Attempts, PaymentFails, Pays, IntentCanceled, BeginCreate, Abort, BeginCapture
  <1>2. ASSUME NEW q \in Payments, CommitCreate(q) PROVE Goal
    <2>1. q # p
      BY <1>a, <1>2 DEF CommitCreate, CreateKnows
    <2>2. status'[p] = status[p] /\ purchase'[p] = purchase[p]
      BY <1>a, <1>2, <2>1 DEF CommitCreate, Typed
    <2> QED
      BY <1>a, <1>c, <2>2
  <1>3. ASSUME NEW q \in Payments, CommitCapture(q) PROVE Goal
    <2>1. status' = [status EXCEPT ![q] = "captured"] /\ Settle(q)
      BY <1>3 DEF CommitCapture
    <2> QED
      BY <1>a, <1>c, <2>1, SettleChanges DEF Typed
  <1>4. ASSUME NEW r \in Refunds, RefundEnds(r) \/ BeginRefund(r) PROVE Goal
    BY <1>d, <1>4 DEF RefundEnds, BeginRefund
  <1>5. ASSUME NEW r \in Refunds, MarkRefunded(Of[r]),
               \E v \in {status[Of[r]], "refunded", "partially_refunded"} :
                  status' = [status EXCEPT ![Of[r]] = v]
        PROVE  Goal
    BY <1>a, <1>c, <1>5 DEF MarkRefunded, Typed
  <1>6. ASSUME NEW r \in Refunds, CommitRefund(r) PROVE Goal
    <2>1. /\ MarkRefunded(Of[r])
          /\ \E v \in {status[Of[r]], "refunded", "partially_refunded"} :
                status' = [status EXCEPT ![Of[r]] = v]
      BY <1>6 DEF CommitRefund
    <2> QED
      BY <1>5, <2>1
  <1>7. ASSUME NEW e \in sent, RefundChanged(e) PROVE Goal
    <2>1. e.of \in Refunds
      BY <1>a, <1>7 DEF RefundChanged, EventsAreTyped
    <2>2. CASE e.status = "succeeded"
      <3>1. /\ MarkRefunded(Of[e.of])
            /\ \E v \in {"refunded", "partially_refunded"} : status' = [status EXCEPT ![Of[e.of]] = v]
        BY <1>7, <2>2 DEF RefundChanged
      <3> QED
        BY <1>5, <2>1, <3>1
    <2>3. CASE e.status # "succeeded"
      BY <1>d, <1>7, <2>3 DEF RefundChanged
    <2> QED
      BY <2>2, <2>3
  <1>8. ASSUME NEW e \in sent, IntentEnded(e) \/ IntentChanged(e) PROVE Goal
    <2>1. /\ e.of \in Payments /\ e.type # "refund" /\ e.status \in IntentStatus
          /\ e \in done' \ done
      BY <1>a, <1>8 DEF IntentEnded, IntentChanged, Processed, Delivered, Fresh, EventsAreTyped
    <2>2. CASE e.of # p
      <3>1. status'[p] = status[p]
        BY <1>a, <1>8, <2>1, <2>2 DEF IntentEnded, IntentChanged, Typed
      <3>2. Release(e.of) \/ Settle(e.of) \/ UNCHANGED purchase
        BY <1>8 DEF IntentEnded, IntentChanged
      <3>3. purchase'[p] = purchase[p]
        BY <1>a, <2>1, <2>2, <3>2 DEF Release, Settle, Typed
      <3> QED
        BY <1>a, <1>c, <3>1, <3>3
    <2>3. CASE e.of = p /\ e.type = "intent" /\ e.status = "succeeded"
      <3>1. status' = [status EXCEPT ![p] = "captured"]
        BY <1>8, <2>3 DEF IntentEnded, IntentChanged
      <3>2. status'[p] = "captured" /\ Settle(p)
        BY <1>a, <1>8, <2>3, <3>1 DEF IntentEnded, IntentChanged, Typed
      <3> QED
        BY <1>a, <1>c, <3>2, SettleChanges
    <2>4. CASE e.of = p /\ ~(e.type = "intent" /\ e.status = "succeeded")
      <3>1. Overtaken(e)
        BY <1>a, <2>1, <2>4, AllOvertaken
      <3> QED
        BY <2>1, <2>4, <3>1 DEF Goal
    <2> QED
      BY <2>2, <2>3, <2>4
  <1>9. CASE \/ \E s \in Subjects : BookingEnds(s) \/ WorkMoves(s)
             \/ \E e \in sent : Ignored(e)
             \/ UNCHANGED vars
    BY <1>d, <1>9 DEF BookingEnds, WorkMoves, Ignored, vars
  <1> QED
    BY <1>1, <1>2, <1>3, <1>4, <1>6, <1>7, <1>8, <1>9 DEF Next, Webhook

\* A capture is undone by nothing but the first delivery of a report that Stripe made
\* before the success: whatever the order of webhooks, requests and refunds, duplicates
\* and later reports leave the payment captured or refunded, and its lead bought.
THEOREM CaptureStays == Spec => CaptureIsKept
  <1>1. KeptInv /\ [Next]_vars =>
          [\A p \in Payments :
              Kept(p) => Kept(p)' \/ \E e \in done' \ done : e.of = p /\ Overtaken(e)]_vars
    BY CaptureStep
  <1> QED
    BY <1>1, KeptInit, KeptNext, PTL DEF Spec, CaptureIsKept

-----------------------------------------------------------------------------
(* RefundedIsTrue *)

\* The refunds of a payment that Stripe has made or is making, those that their rows
\* say so of, and those that their rows say were made
Making(p)  == {r \in Refunds : Of[r] = p /\ refund[r] \in {"pending", "succeeded"}}
Counted(p) == {r \in Refunds : Of[r] = p /\ rstatus[r] \in {"pending", "succeeded"}}
Entered(p) == {r \in Refunds : Of[r] = p /\ rstatus[r] = "succeeded"}

Failed(p) == \E r \in Refunds : Of[r] = p /\ refund[r] \in {"failed", "canceled"}
Back(p)   == status[p] = "refunded" \/ purchase[p] = "REFUNDED"

\* A refund has its row only if Stripe knows it, and the row, Stripe's answer and its
\* reports say that it succeeded only if it did.  A request that waits for its commit
\* has no row yet.  Only leads are purchased.
RowsKnow ==
    /\ amount \in [Refunds -> Nat]
    /\ \A r \in Refunds :
        /\ answer[r] # "none" \/ pc[Of[r]] = r \/ rstatus[r] # "none" => refund[r] # "none"
        /\ answer[r] = "succeeded" \/ rstatus[r] = "succeeded" => refund[r] = "succeeded"
        /\ pc[Of[r]] = r => rstatus[r] = "none"
    /\ \A e \in sent : e.type = "refund" /\ e.status = "succeeded" => refund[e.of] = "succeeded"
    /\ \A p \in Payments : Purpose(Subject[p]) # "lead" => purchase[p] = "NONE"

\* RefundedIsTrue in terms of these sets
BackIsTrue ==
    \A p \in Payments : Back(p) => Failed(p) \/ SumOf(amount, Making(p)) >= captured[p]

LEMMA TotalIs ==
  ASSUME NEW p
  PROVE  /\ Total(p, refund, {"pending", "succeeded"}) = SumOf(amount, Making(p))
         /\ Total(p, rstatus, {"pending", "succeeded"}) = SumOf(amount, Counted(p))
  BY DEF Total, SumOf, Making, Counted

LEMMA RefundSums ==
  ASSUME amount \in [Refunds -> Nat], NEW R \in SUBSET Refunds
  PROVE  /\ IsFiniteSet(R) /\ SumOf(amount, R) \in Int
         /\ \A Q \in SUBSET R : SumOf(amount, Q) <= SumOf(amount, R)
  <1>1. IsFiniteSet(R) /\ \A x \in R : amount[x] \in Nat /\ amount[x] \in Int
    BY RefundAssumption, FS_Subset
  <1> QED
    BY <1>1, SumType, SumGrows

RefundInv == HandedInv /\ RowsKnow /\ BackIsTrue

\* Stripe's side: a refund that has ended stays as it is, its amount is fixed by the
\* first call, and nothing becomes unknown.
LEMMA RefundMoves ==
  RefundInv /\ [Next]_vars =>
    /\ amount' \in [Refunds -> Nat]
    /\ \A r \in Refunds :
        /\ refund[r] # "none" => refund'[r] # "none" /\ amount'[r] = amount[r]
        /\ refund[r] \notin {"none", "pending"} => refund'[r] = refund[r]
  <1> DEFINE Goal == /\ amount' \in [Refunds -> Nat]
                     /\ \A r \in Refunds :
                         /\ refund[r] # "none" => refund'[r] # "none" /\ amount'[r] = amount[r]
                         /\ refund[r] \notin {"none", "pending"} => refund'[r] = refund[r]
  <1> SUFFICES ASSUME RefundInv, [Next]_vars PROVE Goal
    OBVIOUS
  <1>a. Typed /\ amount \in [Refunds -> Nat]
    BY DEF RefundInv, HandedInv, RowsKnow
  <1>b. ASSUME UNCHANGED <<refund, amount>> PROVE Goal
    BY <1>a, <1>b
  <1> USE DEF stripe
  <1>1. ASSUME NEW p \in Payments,
               \/ Attempts(p) \/ PaymentFails(p) \/ Pays(p) \/ IntentCanceled(p)
               \/ BeginCreate(p) \/ CommitCreate(p) \/ CommitCapture(p) \/ Abort(p)
               \/ \E a \in 1 .. Amount : BeginCapture(p, a)
        PROVE  Goal
    BY <1>b, <1>1 DEF Attempts, PaymentFails, Pays, IntentCanceled, BeginCreate, CommitCreate,
                      CommitCapture, Abort, BeginCapture
  <1>2. ASSUME NEW r \in Refunds, RefundEnds(r) PROVE Goal
    BY <1>a, <1>2 DEF RefundEnds, RefundStatus, Typed
  <1>3. ASSUME NEW r \in Refunds, BeginRefund(r) PROVE Goal
    <2>1. \/ UNCHANGED <<refund, amount>>
          \/ /\ refund[r] = "none"
             /\ \E st \in RefundStatus : refund' = [refund EXCEPT ![r] = st]
             /\ \E n \in Nat : amount' = [amount EXCEPT ![r] = n]
      BY <1>3 DEF BeginRefund
    <2> QED
      BY <1>a, <1>b, <2>1 DEF Typed
  <1>4. ASSUME NEW r \in Refunds, CommitRefund(r) PROVE Goal
    BY <1>b, <1>4 DEF CommitRefund
  <1>5. ASSUME NEW e \in sent, Webhook(e) PROVE Goal
    BY <1>b, <1>5 DEF Webhook, Ignored, IntentEnded, IntentChanged, RefundChanged, Processed
  <1>6. CASE (\E s \in Subjects : BookingEnds(s) \/ WorkMoves(s)) \/ UNCHANGED vars
    BY <1>b, <1>6 DEF BookingEnds, WorkMoves, vars
  <1> QED
    BY <1>1, <1>2, <1>3, <1>4, <1>5, <1>6 DEF Next

\* What is being refunded only grows, until a refund fails.
LEMMA MakingGrows ==
  ASSUME RefundInv, [Next]_vars, NEW p \in Payments
  PROVE  /\ Failed(p) => Failed(p)'
         /\ ~Failed(p)' => SumOf(amount, Making(p)) <= SumOf(amount', Making(p)')
  <1>a. /\ Typed /\ Typed' /\ amount \in [Refunds -> Nat] /\ amount' \in [Refunds -> Nat]
        /\ \A r \in Refunds :
            /\ refund[r] # "none" => refund'[r] # "none" /\ amount'[r] = amount[r]
            /\ refund[r] \notin {"none", "pending"} => refund'[r] = refund[r]
    BY RefundMoves, TypedNext DEF RefundInv, HandedInv, RowsKnow
  <1>1. Failed(p) => Failed(p)'
    BY <1>a DEF Failed
  <1>2. ASSUME ~Failed(p)' PROVE SumOf(amount, Making(p)) <= SumOf(amount', Making(p)')
    <2>1. Making(p) \in SUBSET Making(p)' /\ Making(p)' \in SUBSET Refunds
      BY <1>a, <1>2 DEF Making, Failed, Typed, RefundStatus
    <2>2. IsFiniteSet(Making(p)') /\ IsFiniteSet(Making(p))
      BY <2>1, RefundAssumption, FS_Subset
    <2>3. \A r \in Making(p) : amount[r] \in Int /\ amount'[r] = amount[r]
      BY <1>a DEF Making
    <2>4. SumOf(amount, Making(p)) = SumOf(amount', Making(p))
      BY <2>2, <2>3, SumCongruent
    <2>5. \A r \in Making(p)' : amount'[r] \in Nat
      BY <1>a, <2>1
    <2>6. SumOf(amount', Making(p)) <= SumOf(amount', Making(p)')
      BY <2>1, <2>2, <2>5, SumGrows
    <2> QED
      BY <2>4, <2>6
  <1> QED
    BY <1>1, <1>2

LEMMA RowsNext == RefundInv /\ [Next]_vars => RowsKnow'
  <1> SUFFICES ASSUME RefundInv, [Next]_vars PROVE RowsKnow'
    OBVIOUS
  <1>a. Typed /\ EventsAreTyped /\ RowsKnow
    BY DEF RefundInv, HandedInv
  <1>b. \A p \in Payments : Purpose(Subject[p])' = Purpose(Subject[p])
    BY <1>a, SubjectMoves, PurposeIsKept, SubjectAssumption DEF RefundInv, HandedInv
  <1>c. /\ amount' \in [Refunds -> Nat]
        /\ \A r \in Refunds : /\ refund[r] # "none" => refund'[r] # "none"
                              /\ refund[r] = "succeeded" => refund'[r] = "succeeded"
    BY RefundMoves
  <1> DEFINE Answers == \A r \in Refunds : answer'[r] # answer[r] => answer'[r] = refund'[r]
             Rows == \A r \in Refunds : \/ rstatus'[r] = rstatus[r]
                                        \/ refund[r] # "none" /\ rstatus'[r] # "succeeded"
                                        \/ refund[r] = "succeeded"
             Waits == \A r \in Refunds : pc'[Of[r]] = r =>
                         rstatus'[r] = "none" /\ refund'[r] # "none"
             Reports == \A e \in sent' \ sent :
                           e.type = "refund" /\ e.status = "succeeded" => refund'[e.of] = "succeeded"
             Leads == \A p \in Payments : Purpose(Subject[p]) # "lead" => purchase'[p] = purchase[p]
  <1>d. ASSUME Answers, Rows, Waits, Reports, Leads PROVE RowsKnow'
    <2>1. ASSUME NEW r \in Refunds
          PROVE  /\ answer'[r] # "none" \/ pc'[Of[r]] = r \/ rstatus'[r] # "none" => refund'[r] # "none"
                 /\ answer'[r] = "succeeded" \/ rstatus'[r] = "succeeded" => refund'[r] = "succeeded"
                 /\ pc'[Of[r]] = r => rstatus'[r] = "none"
      BY <1>a, <1>c, <1>d DEF RowsKnow
    <2>2. \A e \in sent' : e.type = "refund" /\ e.status = "succeeded" => refund'[e.of] = "succeeded"
      BY <1>a, <1>c, <1>d DEF RowsKnow, EventsAreTyped
    <2>3. \A p \in Payments : Purpose(Subject[p])' # "lead" => purchase'[p] = "NONE"
      BY <1>a, <1>b, <1>d DEF RowsKnow
    <2> QED
      BY <1>c, <2>1, <2>2, <2>3 DEF RowsKnow
  <1> HIDE DEF Answers, Rows, Waits, Reports, Leads
  <1>e. UNCHANGED answer => Answers
    BY DEF Answers
  <1>f. UNCHANGED rstatus => Rows
    BY DEF Rows
  <1>g. UNCHANGED sent => Reports
    BY DEF Reports
  <1>h. UNCHANGED purchase => Leads
    BY DEF Leads
  <1>i. ASSUME UNCHANGED rstatus, \A r \in Refunds : pc'[Of[r]] = r => pc[Of[r]] = r PROVE Waits
    BY <1>a, <1>c, <1>i DEF Waits, RowsKnow
  <1>j. Of \in [Refunds -> Payments] /\ {"idle", "create", "capture"} \cap Refunds = {}
    BY RefundAssumption
  <1> USE DEF database, stripe
  <1>1. ASSUME NEW p \in Payments,
               \/ Attempts(p) \/ PaymentFails(p) \/ Pays(p) \/ IntentCanceled(p)
               \/ BeginCreate(p) \/ Abort(p)
               \/ \E a \in 1 .. Amount : BeginCapture(p, a)
        PROVE  RowsKnow'
    <2>1. /\ UNCHANGED <<answer, rstatus, purchase>>
          /\ pc' = pc \/ \E v \in {"idle", "create", "capture"} : pc' = [pc EXCEPT ![p] = v]
          /\ UNCHANGED sent \/ \E type \in {"intent", "payment_failed", "canceled"} : \E st : Send(p, type, st)
      BY <1>1 DEF Attempts, PaymentFails, Pays, IntentCanceled, BeginCreate, Abort, BeginCapture
    <2>2. Waits
      BY <1>a, <1>i, <1>j, <2>1 DEF Typed
    <2>3. Reports
      BY <2>1 DEF Reports, Send
    <2> QED
      BY <1>d, <1>e, <1>f, <1>h, <2>1, <2>2, <2>3
  <1>2. ASSUME NEW p \in Payments, CommitCreate(p) \/ CommitCapture(p) PROVE RowsKnow'
    <2>1. /\ UNCHANGED <<answer, rstatus, sent>> /\ pc' = [pc EXCEPT ![p] = "idle"]
      BY <1>2 DEF CommitCreate, CommitCapture
    <2>2. Waits
      BY <1>a, <1>i, <1>j, <2>1 DEF Typed
    <2>3. ASSUME CommitCreate(p) PROVE Leads
      BY <1>a, <2>3 DEF CommitCreate, Leads, Typed
    <2>4. ASSUME CommitCapture(p) PROVE Leads
      BY <1>a, <2>4, SettleChanges DEF CommitCapture, Leads
    <2> QED
      BY <1>d, <1>e, <1>f, <1>g, <1>2, <2>1, <2>2, <2>3, <2>4
  <1>3. ASSUME NEW r \in Refunds, RefundEnds(r) PROVE RowsKnow'
    <2>1. UNCHANGED <<answer, rstatus, purchase, pc>>
      BY <1>3 DEF RefundEnds
    <2>2. Reports
      BY <1>a, <1>3 DEF RefundEnds, Send, Reports, Typed
    <2> QED
      BY <1>d, <1>e, <1>f, <1>h, <1>i, <2>1, <2>2
  <1>4. ASSUME NEW r \in Refunds, BeginRefund(r) PROVE RowsKnow'
    <2>1. /\ rstatus[r] = "none" /\ UNCHANGED <<rstatus, purchase>> /\ pc' = [pc EXCEPT ![Of[r]] = r]
          /\ \/ refund[r] # "none" /\ UNCHANGED <<refund, answer, sent>>
             \/ \E st \in RefundStatus :
                   /\ refund' = [refund EXCEPT ![r] = st] /\ answer' = [answer EXCEPT ![r] = st]
                   /\ Send(r, "refund", st)
      BY <1>4 DEF BeginRefund
    <2>2. refund'[r] # "none"
      BY <1>a, <2>1 DEF Typed, RefundStatus
    <2>3. Waits
      BY <1>a, <1>c, <1>j, <2>1, <2>2 DEF Waits, RowsKnow, Typed
    <2>4. Reports
      BY <1>a, <2>1 DEF Send, Reports, Typed
    <2>5. Answers
      BY <1>a, <2>1 DEF Answers, Typed
    <2> QED
      BY <1>d, <1>f, <1>h, <2>1, <2>3, <2>4, <2>5
  <1>5. ASSUME NEW p \in Payments, MarkRefunded(p) PROVE Leads
    BY <1>a, <1>5 DEF MarkRefunded, Leads, Typed
  <1>6. ASSUME NEW r \in Refunds, CommitRefund(r) PROVE RowsKnow'
    <2>1. /\ pc[Of[r]] = r /\ pc' = [pc EXCEPT ![Of[r]] = "idle"]
          /\ rstatus' = [rstatus EXCEPT ![r] = answer[r]]
          /\ UNCHANGED <<answer, sent, refund>> /\ MarkRefunded(Of[r])
      BY <1>6 DEF CommitRefund
    <2>2. Waits
      BY <1>a, <1>j, <2>1 DEF Waits, RowsKnow, Typed
    <2>3. Rows
      BY <1>a, <2>1 DEF Rows, RowsKnow, Typed
    <2>4. Leads
      BY <1>5, <1>j, <2>1
    <2> QED
      BY <1>d, <1>e, <1>g, <2>1, <2>2, <2>3, <2>4
  <1>7. ASSUME NEW e \in sent, RefundChanged(e) PROVE RowsKnow'
    <2>1. /\ e.type = "refund" /\ e.of \in Refunds /\ rstatus[e.of] # "none"
          /\ pc[Of[e.of]] = "idle" /\ rstatus' = [rstatus EXCEPT ![e.of] = e.status]
          /\ UNCHANGED <<answer, sent, refund, pc>>
          /\ MarkRefunded(Of[e.of]) \/ UNCHANGED purchase
      BY <1>a, <1>7 DEF RefundChanged, Processed, Known, PaymentOf, EventsAreTyped
    <2>2. Waits
      BY <1>a, <1>j, <2>1 DEF Waits, RowsKnow, Typed
    <2>3. Rows
      BY <1>a, <2>1 DEF Rows, RowsKnow, Typed
    <2>4. Leads
      BY <1>5, <1>h, <1>j, <2>1
    <2> QED
      BY <1>d, <1>e, <1>g, <2>1, <2>2, <2>3, <2>4
  <1>8. ASSUME NEW e \in sent, IntentEnded(e) \/ IntentChanged(e) PROVE RowsKnow'
    <2>1. /\ e.of \in Payments /\ UNCHANGED <<answer, sent, rstatus, pc>>
          /\ Release(e.of) \/ Settle(e.of) \/ UNCHANGED purchase
      BY <1>a, <1>8 DEF IntentEnded, IntentChanged, Processed, EventsAreTyped
    <2>2. Leads
      BY <1>a, <2>1, SettleChanges DEF Release, Leads, Typed
    <2> QED
      BY <1>d, <1>e, <1>f, <1>g, <1>i, <2>1, <2>2
  <1>9. CASE \/ \E s \in Subjects : BookingEnds(s) \/ WorkMoves(s)
             \/ \E e \in sent : Ignored(e)
             \/ UNCHANGED vars
    <2>1. UNCHANGED <<answer, sent, rstatus, pc, purchase>>
      BY <1>9 DEF BookingEnds, WorkMoves, Ignored, vars
    <2> QED
      BY <1>d, <1>e, <1>f, <1>g, <1>h, <1>i, <2>1
  <1> QED
    BY <1>1, <1>2, <1>3, <1>4, <1>6, <1>7, <1>8, <1>9 DEF Next, Webhook

LEMMA BackNext == RefundInv /\ [Next]_vars => BackIsTrue'
  <1> SUFFICES ASSUME RefundInv, [Next]_vars PROVE BackIsTrue'
    OBVIOUS
  <1> DEFINE Sum(p) == SumOf(amount, Making(p))
  <1>a. Typed /\ Typed' /\ EventsAreTyped /\ RowsKnow /\ BackIsTrue /\ RowsKnow'
    BY RowsNext, TypedNext DEF RefundInv, HandedInv
  <1>b. \A p \in Payments : /\ Failed(p) => Failed(p)'
                            /\ ~Failed(p)' => Sum(p) <= Sum(p)'
    BY MakingGrows
  <1>c. \A p \in Payments : Sum(p) \in Int /\ Sum(p)' \in Int /\ captured[p] \in Int /\ captured'[p] \in Int
    <2>1. \A p \in Payments : Making(p) \in SUBSET Refunds /\ Making(p)' \in SUBSET Refunds
      BY DEF Making
    <2>2. \A p \in Payments : Sum(p) \in Int
      BY <1>a, <2>1, RefundSums DEF RowsKnow
    <2>3. \A p \in Payments : IsFiniteSet(Making(p)') /\ \A r \in Making(p)' : amount'[r] \in Int
      BY <1>a, <2>1, RefundAssumption, FS_Subset DEF RowsKnow
    <2>4. \A p \in Payments : Sum(p)' \in Int
      BY <2>3, SumType
    <2> QED
      BY <1>a, <2>2, <2>4, AmountAssumption DEF Typed
  <1> HIDE DEF Sum
  \* A payment is newly refunded only if all that was captured is being refunded.
  <1>d. ASSUME \A p \in Payments : Back(p)' =>
                  \/ Back(p) /\ captured'[p] <= captured[p]
                  \/ captured'[p] = captured[p] /\ (Failed(p) \/ Sum(p) >= captured[p])
        PROVE  BackIsTrue'
    <2> SUFFICES ASSUME NEW p \in Payments, Back(p)', ~Failed(p)' PROVE Sum(p)' >= captured'[p]
      BY DEF BackIsTrue, Sum
    <2>1. captured'[p] <= captured[p] /\ Sum(p) >= captured[p]
      <3>1. ~Failed(p)
        BY <1>b
      <3>2. CASE Back(p) /\ captured'[p] <= captured[p]
        BY <1>a, <3>1, <3>2 DEF BackIsTrue, Sum
      <3>3. CASE captured'[p] = captured[p] /\ (Failed(p) \/ Sum(p) >= captured[p])
        BY <1>c, <3>1, <3>3
      <3> QED
        BY <1>d, <3>2, <3>3
    <2> QED
      BY <1>b, <1>c, <2>1
  <1>e. ASSUME UNCHANGED <<status, purchase, captured>> PROVE BackIsTrue'
    BY <1>c, <1>d, <1>e DEF Back
  <1> USE SubjectAssumption, RefundAssumption, Statuses DEF database
  <1>1. ASSUME NEW p \in Payments,
               \/ Attempts(p) \/ PaymentFails(p) \/ Pays(p) \/ IntentCanceled(p)
               \/ BeginCreate(p) \/ Abort(p)
               \/ \E a \in 1 .. Amount : BeginCapture(p, a)
        PROVE  BackIsTrue'
    BY <1>e, <1>1 DEF Attempts, PaymentFails, Pays, IntentCanceled, BeginCreate, Abort, BeginCapture
  <1>2. ASSUME NEW p \in Payments, CommitCreate(p) PROVE BackIsTrue'
    <2>1. UNCHANGED captured /\ \A q \in Payments : Back(q)' => Back(q)
      BY <1>a, <1>2 DEF CommitCreate, Back, Typed
    <2> QED
      BY <1>c, <1>d, <2>1
  \* A payment that is captured is not refunded, nor is its purchase.
  <1>3. ASSUME NEW p \in Payments, Settle(p), status' = [status EXCEPT ![p] = "captured"],
               \E a : captured' = [captured EXCEPT ![p] = a]
        PROVE  BackIsTrue'
    <2>1. /\ \A q \in Payments : q # p => status'[q] = status[q] /\ captured'[q] = captured[q]
          /\ status'[p] = "captured"
      BY <1>a, <1>3 DEF Typed
    <2>2. /\ \A q \in Payments : q # p => purchase'[q] = purchase[q]
          /\ purchase'[p] # "REFUNDED"
      BY <1>a, <1>3, SettleChanges DEF RowsKnow
    <2>3. \A q \in Payments : Back(q)' => Back(q) /\ q # p
      BY <2>1, <2>2 DEF Back
    <2> QED
      BY <1>c, <1>d, <2>1, <2>3
  <1>4. ASSUME NEW p \in Payments, CommitCapture(p) PROVE BackIsTrue'
    BY <1>3, <1>4 DEF CommitCapture
  <1>5. ASSUME NEW r \in Refunds, RefundEnds(r) \/ BeginRefund(r) PROVE BackIsTrue'
    BY <1>e, <1>5 DEF RefundEnds, BeginRefund
  <1>6. ASSUME NEW p \in Payments, UNCHANGED captured,
               \A q \in Payments : q # p => status'[q] = status[q] /\ purchase'[q] = purchase[q],
               Back(p)' => Back(p) \/ Failed(p) \/ Sum(p) >= captured[p]
        PROVE  BackIsTrue'
    <2>1. ASSUME NEW q \in Payments, Back(q)'
          PROVE  \/ Back(q) /\ captured'[q] <= captured[q]
                 \/ captured'[q] = captured[q] /\ (Failed(q) \/ Sum(q) >= captured[q])
      BY <1>c, <1>6, <2>1 DEF Back
    <2> QED
      BY <1>d, <2>1
  <1>7. ASSUME NEW r \in Refunds, CommitRefund(r) PROVE BackIsTrue'
    <2> DEFINE p == Of[r]
    <2>1. /\ p \in Payments /\ pc[p] = r /\ UNCHANGED captured
          /\ MarkRefunded(p)
          /\ status' = [status EXCEPT ![p] = IF answer[r] # "succeeded" THEN @
                           ELSE IF Full(r) THEN "refunded" ELSE "partially_refunded"]
      BY <1>7 DEF CommitRefund
    <2>2. /\ \A q \in Payments : q # p => status'[q] = status[q] /\ purchase'[q] = purchase[q]
          /\ Back(p)' => Back(p) \/ (answer[r] = "succeeded" /\ Full(r))
      BY <1>a, <2>1 DEF MarkRefunded, Back, Typed
    <2>3. ASSUME Full(r), answer[r] = "succeeded", ~Failed(p) PROVE Sum(p) >= captured[p]
      <3>1. amount[r] = captured[p] - SumOf(amount, Counted(p))
        BY <2>3, TotalIs DEF Full, Remaining
      <3>2. /\ r \notin Counted(p) /\ Counted(p) \cup {r} \in SUBSET Making(p)
            /\ Making(p) \in SUBSET Refunds /\ Counted(p) \in SUBSET Refunds
        BY <1>a, <2>1, <2>3 DEF Counted, Making, Failed, RowsKnow, Typed, RefundStatus
      <3>3. /\ IsFiniteSet(Counted(p)) /\ SumOf(amount, Counted(p)) \in Int
            /\ SumOf(amount, Counted(p) \cup {r}) <= Sum(p)
        BY <1>a, <3>2, RefundSums DEF RowsKnow, Sum
      <3>4. \A x \in Counted(p) \cup {r} : amount[x] \in Int
        BY <1>a, <3>2 DEF RowsKnow
      <3>5. SumOf(amount, Counted(p) \cup {r}) = SumOf(amount, Counted(p)) + amount[r]
        <4> HIDE SubjectAssumption, RefundAssumption, Statuses DEF p, database
        <4>1. IsFiniteSet(Counted(p)) /\ r \notin Counted(p)
          BY <3>2, <3>3
        <4> QED
          BY <3>4, <4>1, SumAdds
      <3>6. amount[r] \in Int /\ Sum(p) \in Int /\ captured[p] \in Int
        BY <1>c, <2>1, <3>4
      <3> QED
        BY <3>1, <3>3, <3>5, <3>6
    <2> QED
      BY <1>6, <2>1, <2>2, <2>3
  <1>8. ASSUME NEW e \in sent, RefundChanged(e) PROVE BackIsTrue'
    <2> DEFINE p == Of[e.of]
               Q == {x \in Refunds : Of[x] = p /\ rstatus'[x] \in {"succeeded"}}
    <2>1. e.of \in Refunds /\ p \in Payments /\ UNCHANGED <<captured, refund, amount>>
      BY <1>a, <1>8 DEF RefundChanged, Processed, EventsAreTyped, stripe
    <2>2. CASE e.status # "succeeded"
      BY <1>e, <1>8, <2>2 DEF RefundChanged
    <2>3. CASE e.status = "succeeded"
      <3>1. /\ MarkRefunded(p)
            /\ status' = [status EXCEPT ![p] = IF Total(p, rstatus', {"succeeded"}) >= captured[p]
                                                THEN "refunded" ELSE "partially_refunded"]
        BY <1>8, <2>3 DEF RefundChanged
      <3>2. /\ \A q \in Payments : q # p => status'[q] = status[q] /\ purchase'[q] = purchase[q]
            /\ Back(p)' => Back(p) \/ Total(p, rstatus', {"succeeded"}) >= captured[p]
        BY <1>a, <2>1, <3>1 DEF MarkRefunded, Back, Typed
      <3>3. Total(p, rstatus', {"succeeded"}) = SumOf(amount, Q)
        BY DEF Total, SumOf
      <3>4. Q \in SUBSET Making(p) /\ Making(p) \in SUBSET Refunds
        BY <1>a, <2>1 DEF Making, RowsKnow
      <3>5. Q \in SUBSET Refunds
        OBVIOUS
      <3> HIDE DEF Q
      <3>6. SumOf(amount, Q) <= Sum(p) /\ SumOf(amount, Q) \in Int
        BY <1>a, <3>4, <3>5, RefundSums DEF RowsKnow, Sum
      <3>7. Total(p, rstatus', {"succeeded"}) >= captured[p] => Sum(p) >= captured[p]
        BY <1>c, <2>1, <3>3, <3>6
      <3> QED
        BY <1>6, <2>1, <3>2, <3>7
    <2> QED
      BY <2>2, <2>3
  <1>9. ASSUME NEW e \in sent, IntentEnded(e) PROVE BackIsTrue'
    <2>1. UNCHANGED captured /\ \A q \in Payments : Back(q)' => Back(q)
      BY <1>a, <1>9 DEF IntentEnded, Release, EventsAreTyped, Back, Typed
    <2> QED
      BY <1>c, <1>d, <2>1
  <1>10. ASSUME NEW e \in sent, IntentChanged(e) PROVE BackIsTrue'
    <2>1. /\ e.of \in Payments /\ e.status \in IntentStatus
          /\ status' = [status EXCEPT ![e.of] = StripeStatus[e.status]]
          /\ captured' = [captured EXCEPT ![e.of] = AmountReceived(e)]
      BY <1>a, <1>10 DEF IntentChanged, EventsAreTyped
    <2>2. CASE e.status = "succeeded"
      <3>1. status' = [status EXCEPT ![e.of] = "captured"] /\ status'[e.of] = "captured"
        BY <1>a, <2>1, <2>2 DEF Typed
      <3>2. Settle(e.of)
        BY <1>10, <3>1 DEF IntentChanged
      <3> QED
        BY <1>3, <2>1, <3>1, <3>2
    <2>3. CASE e.status # "succeeded"
      <3>1. status'[e.of] \notin {"captured", "refunded"} /\ captured'[e.of] = 0
        BY <1>a, <2>1, <2>3 DEF IntentStatus, AmountReceived, Typed
      <3>2. UNCHANGED purchase
        BY <1>10, <3>1 DEF IntentChanged
      <3>3. \A q \in Payments : q # e.of => status'[q] = status[q] /\ captured'[q] = captured[q]
        BY <1>a, <2>1 DEF Typed
      <3>4. \A q \in Payments : captured[q] >= 0
        BY <1>a, AmountAssumption DEF Typed
      <3>5. \A q \in Payments : Back(q)' => Back(q) /\ captured'[q] <= captured[q]
        BY <1>c, <3>1, <3>2, <3>3, <3>4 DEF Back
      <3> QED
        BY <1>d, <3>5
    <2> QED
      BY <2>2, <2>3
  <1>11. CASE \/ \E s \in Subjects : BookingEnds(s) \/ WorkMoves(s)
              \/ \E e \in sent : Ignored(e)
              \/ UNCHANGED vars
    BY <1>e, <1>11 DEF BookingEnds, WorkMoves, Ignored, vars
  <1> QED
    BY <1>1, <1>2, <1>4, <1>5, <1>7, <1>8, <1>9, <1>10, <1>11 DEF Next, Webhook

\* What is marked refunded is returned: however Stripe's reports are reordered or
\* repeated and requests die, a payment or purchase that says refunded has its whole
\* captured amount in refunds that Stripe has made or is making, as long as none of
\* them failed (refund, process_webhook).
THEOREM RefundedWasReturned == Spec => []RefundedIsTrue
  <1>1. Init => RefundInv
    <2> SUFFICES ASSUME Init PROVE RefundInv
      OBVIOUS
    <2>1. RowsKnow
      BY RefundAssumption DEF Init, RowsKnow
    <2>2. BackIsTrue
      BY DEF Init, BackIsTrue, Back
    <2> QED
      BY <2>1, <2>2, HandedInit DEF RefundInv
  <1>2. RefundInv /\ [Next]_vars => RefundInv'
    BY HandedNext, RowsNext, BackNext DEF RefundInv
  <1>3. RefundInv => RefundedIsTrue
    BY TotalIs DEF RefundInv, BackIsTrue, RefundedIsTrue, Back, Failed
  <1> QED
    BY <1>1, <1>2, <1>3, PTL DEF Spec
-----------------------------------------------------------------------------
(* Payouts *)

\* The part of PayoutTypeOK the arguments below need
Shape ==
    /\ estatus \in [Earnings -> {"NONE"} \cup EarningStatus]
    /\ ebatch \in [Earnings -> Batches \cup {NULL}]
    /\ bstatus \in [Batches -> {"NONE"} \cup PayoutStatus]
    /\ total = [b \in Batches |-> total[b]]
    /\ stage \in [Requests -> {"idle", "calling", "called"}]
    /\ sub \in [Requests -> Batches \cup {NULL}]

LEMMA ShapeInit == PayoutInit => Shape
  BY DEF PayoutInit, Shape, EarningStatus, PayoutStatus

\* What an adjustment may make of an earning
LEMMA AdjustedStatus ==
    ASSUME NEW e \in Earnings, NEW k \in Adjustments
    PROVE  StatusAfter(e, k) \in {"REVERSED", "HELD", estatus[e]}
  BY DEF StatusAfter

LEMMA ShapeNext == Shape /\ [PayoutNext]_pvars => Shape'
  <1> SUFFICES ASSUME Shape, [PayoutNext]_pvars PROVE Shape'
    OBVIOUS
  <1> USE DEF Shape, EarningStatus, PayoutStatus
  <1>1. CASE Toggle
    BY <1>1 DEF Toggle, earnings, batches, requests
  <1>2. ASSUME NEW p \in Plans, CreatePlan(p) PROVE Shape'
    BY <1>2 DEF CreatePlan, earnings, batches, requests
  <1>3. ASSUME NEW e \in Earnings, Recognize(e) PROVE Shape'
    BY <1>3 DEF Recognize, batches, requests
  <1>4. ASSUME NEW e \in Earnings, HoldEnds(e) PROVE Shape'
    BY <1>4 DEF HoldEnds, batches, requests
  <1>5. ASSUME NEW e \in Earnings, NEW k \in Adjustments, Adjust(e, k) PROVE Shape'
    BY <1>5, AdjustedStatus DEF Adjust, batches, requests
  <1>6. ASSUME NEW S \in SUBSET Earnings, ReleaseEligible(S) PROVE Shape'
    BY <1>6 DEF ReleaseEligible, batches, requests
  <1>7. ASSUME NEW S \in SUBSET Earnings, NEW b \in Batches, CreateBatch(b, S) PROVE Shape'
    BY <1>7 DEF CreateBatch, requests
  <1>8. ASSUME NEW b \in Batches, Approve(b) PROVE Shape'
    BY <1>8 DEF Approve, earnings, requests
  <1>9. ASSUME NEW b \in Batches, NEW r \in Requests, BeginSubmit(r, b) PROVE Shape'
    BY <1>9 DEF BeginSubmit, earnings, batches
  <1>10. ASSUME NEW r \in Requests, CallGateway(r) PROVE Shape'
    BY <1>10 DEF CallGateway, earnings, batches
  <1>11. ASSUME NEW r \in Requests, CommitSubmit(r) PROVE Shape'
    BY <1>11 DEF CommitSubmit, earnings
  <1>12. ASSUME NEW r \in Requests, AbortSubmit(r) PROVE Shape'
    BY <1>12 DEF AbortSubmit, earnings, batches
  <1>13. CASE UNCHANGED pvars
    BY <1>13 DEF pvars
  <1> QED
    BY <1>1, <1>2, <1>3, <1>4, <1>5, <1>6, <1>7, <1>8, <1>9, <1>10, <1>11, <1>12, <1>13
       DEF PayoutNext

-----------------------------------------------------------------------------
(* No earning is in two batches *)

\* An earning that is in a batch is past the statuses from which batches are made.
BatchedIsPast ==
    \A e \in Earnings : ebatch[e] # NULL => estatus[e] \in {"BATCHED", "HELD", "REVERSED"}

LEMMA PastInit == PayoutInit => BatchedIsPast
  BY DEF PayoutInit, BatchedIsPast

\* The two facts are proved together: the batch of an earning may change only
\* where BatchedIsPast says that it has none.
LEMMA PastNext ==
    Shape /\ BatchedIsPast /\ [PayoutNext]_pvars =>
        /\ BatchedIsPast'
        /\ \A e \in Earnings : ebatch[e] # NULL => ebatch'[e] = ebatch[e]
  <1> SUFFICES ASSUME Shape, BatchedIsPast, [PayoutNext]_pvars
               PROVE  /\ BatchedIsPast'
                      /\ \A e \in Earnings : ebatch[e] # NULL => ebatch'[e] = ebatch[e]
    OBVIOUS
  <1> DEFINE Lasting == /\ BatchedIsPast'
                     /\ \A e \in Earnings : ebatch[e] # NULL => ebatch'[e] = ebatch[e]
  <1> USE DEF Shape, BatchedIsPast
  <1>1. CASE UNCHANGED earnings
    BY <1>1 DEF earnings
  <1>2. ASSUME NEW e \in Earnings, Recognize(e) PROVE Lasting
    BY <1>2 DEF Recognize
  <1>3. ASSUME NEW e \in Earnings, HoldEnds(e) PROVE Lasting
    BY <1>3 DEF HoldEnds
  <1>4. ASSUME NEW e \in Earnings, NEW k \in Adjustments, Adjust(e, k) PROVE Lasting
    BY <1>4, AdjustedStatus DEF Adjust
  <1>5. ASSUME NEW S \in SUBSET Earnings, ReleaseEligible(S) PROVE Lasting
    BY <1>5 DEF ReleaseEligible, Releasable
  <1>6. ASSUME NEW S \in SUBSET Earnings, NEW b \in Batches, CreateBatch(b, S) PROVE Lasting
    BY <1>6 DEF CreateBatch, Available
  <1>7. ASSUME Toggle \/ \E p \in Plans : CreatePlan(p) PROVE UNCHANGED earnings
    BY <1>7 DEF Toggle, CreatePlan
  <1>8. ASSUME NEW b \in Batches, Approve(b) \/ \E r \in Requests : BeginSubmit(r, b)
        PROVE  UNCHANGED earnings
    BY <1>8 DEF Approve, BeginSubmit
  <1>9. ASSUME NEW r \in Requests, CallGateway(r) \/ CommitSubmit(r) \/ AbortSubmit(r)
        PROVE  UNCHANGED earnings
    BY <1>9 DEF CallGateway, CommitSubmit, AbortSubmit
  <1>10. CASE UNCHANGED pvars
    BY <1>10 DEF pvars
  <1> QED
    BY <1>1, <1>2, <1>3, <1>4, <1>5, <1>6, <1>7, <1>8, <1>9, <1>10 DEF PayoutNext

\* finance-integrations.md: "an earning's single payout_batch_id prevents duplicate
\* inclusion".  No release, adjustment or batch run moves an earning that
\* create_batch has put in a batch.
THEOREM NoDoubleInclusion == PayoutSpec => IncludedOnce
  <1>1. Shape /\ BatchedIsPast /\ [PayoutNext]_pvars =>
            [\A e \in Earnings : ebatch[e] # NULL => ebatch'[e] = ebatch[e]]_pvars
    BY PastNext
  <1>2. Shape /\ BatchedIsPast /\ [PayoutNext]_pvars => BatchedIsPast'
    BY PastNext
  <1> QED
    BY <1>1, <1>2, ShapeInit, ShapeNext, PastInit, PTL DEF PayoutSpec, IncludedOnce

-----------------------------------------------------------------------------
(* No batch is paid twice *)

\* A submission under way is for a batch that has been approved.
SubmitsApproved ==
    \A r \in Requests :
        stage[r] # "idle" => /\ sub[r] \in Batches
                          /\ bstatus[sub[r]] \in {"APPROVED", "PROCESSING"}

\* A transfer carries its batch's key and total; one key has one transfer.
TransferIsKeyed ==
    /\ \A t \in paid : /\ t.key = t.batch
                       /\ t.batch \in Batches
                       /\ bstatus[t.batch] \in {"APPROVED", "PROCESSING"}
                       /\ t.amount = total[t.batch]
    /\ \A t, u \in paid : t.key = u.key => t = u

PaidInv == SubmitsApproved /\ TransferIsKeyed

LEMMA PaidInit == PayoutInit => PaidInv
  BY DEF PayoutInit, PaidInv, SubmitsApproved, TransferIsKeyed

LEMMA PaidNext == Shape /\ PaidInv /\ [PayoutNext]_pvars => PaidInv'
  <1> SUFFICES ASSUME Shape, PaidInv, [PayoutNext]_pvars PROVE PaidInv'
    OBVIOUS
  <1> USE DEF Shape, PaidInv, SubmitsApproved, TransferIsKeyed
  <1>1. CASE UNCHANGED <<bstatus, total, stage, sub, paid>>
    BY <1>1
  <1>2. ASSUME NEW S \in SUBSET Earnings, NEW b \in Batches, CreateBatch(b, S) PROVE PaidInv'
    <2>1. /\ bstatus[b] = "NONE"
          /\ \A c \in Batches : c # b => bstatus'[c] = bstatus[c] /\ total'[c] = total[c]
          /\ UNCHANGED <<stage, sub, paid>>
      BY <1>2 DEF CreateBatch, requests
    <2> QED
      BY <2>1
  <1>3. ASSUME NEW b \in Batches, Approve(b) PROVE PaidInv'
    <2>1. /\ bstatus[b] = "PENDING_APPROVAL"
          /\ \A c \in Batches : c # b => bstatus'[c] = bstatus[c]
          /\ UNCHANGED <<total, stage, sub, paid>>
      BY <1>3 DEF Approve, requests
    <2> QED
      BY <2>1
  <1>4. ASSUME NEW b \in Batches, NEW r \in Requests, BeginSubmit(r, b) PROVE PaidInv'
    <2>1. /\ bstatus[b] = "APPROVED"
          /\ UNCHANGED <<bstatus, total, paid>>
          /\ stage' = [stage EXCEPT ![r] = "calling"]
          /\ sub' = [sub EXCEPT ![r] = b]
      BY <1>4 DEF BeginSubmit, Submittable, batches
    <2>2. SubmitsApproved'
      BY <2>1
    <2>3. TransferIsKeyed'
      BY <2>1
    <2> QED
      BY <2>2, <2>3
  <1>5. ASSUME NEW r \in Requests, CallGateway(r) PROVE PaidInv'
    <2>1. /\ stage[r] = "calling"
          /\ UNCHANGED <<bstatus, total, sub>>
          /\ stage' = [stage EXCEPT ![r] = "called"]
          /\ sub[r] \in Batches
          /\ bstatus[sub[r]] \in {"APPROVED", "PROCESSING"}
      BY <1>5 DEF CallGateway, batches
    <2>2. SubmitsApproved'
      BY <2>1
    <2>3. CASE \E t \in paid : t.key = sub[r]
      <3>1. paid' = paid
        BY <1>5, <2>3 DEF CallGateway, Key
      <3> QED
        BY <2>1, <2>2, <3>1
    <2>4. CASE ~\E t \in paid : t.key = sub[r]
      <3>1. paid' = paid \cup {[key |-> sub[r], batch |-> sub[r], amount |-> total[sub[r]]]}
        BY <1>5, <2>4 DEF CallGateway, Key
      <3>2. TransferIsKeyed'
        BY <2>1, <2>4, <3>1
      <3> QED
        BY <2>2, <3>2
    <2> QED
      BY <2>3, <2>4
  <1>6. ASSUME NEW r \in Requests, CommitSubmit(r) PROVE PaidInv'
    <2>1. /\ stage[r] # "idle"
          /\ UNCHANGED <<total, paid>>
          /\ stage' = [stage EXCEPT ![r] = "idle"]
          /\ sub' = [sub EXCEPT ![r] = NULL]
          /\ bstatus' = [bstatus EXCEPT ![sub[r]] = "PROCESSING"]
          /\ sub[r] \in Batches
      BY <1>6 DEF CommitSubmit
    <2>2. \A c \in Batches : bstatus'[c] = bstatus[c] \/ bstatus'[c] = "PROCESSING"
      BY <2>1
    <2>3. SubmitsApproved'
      BY <2>1, <2>2
    <2>4. TransferIsKeyed'
      BY <2>1, <2>2
    <2> QED
      BY <2>3, <2>4
  <1>7. ASSUME NEW r \in Requests, AbortSubmit(r) PROVE PaidInv'
    BY <1>7 DEF AbortSubmit, batches
  <1>8. ASSUME Toggle \/ \E p \in Plans : CreatePlan(p)
        PROVE  UNCHANGED <<bstatus, total, stage, sub, paid>>
    BY <1>8 DEF Toggle, CreatePlan, batches, requests
  <1>9. ASSUME NEW e \in Earnings,
               Recognize(e) \/ HoldEnds(e) \/ \E k \in Adjustments : Adjust(e, k)
        PROVE  UNCHANGED <<bstatus, total, stage, sub, paid>>
    BY <1>9 DEF Recognize, HoldEnds, Adjust, batches, requests
  <1>10. ASSUME NEW S \in SUBSET Earnings, ReleaseEligible(S)
         PROVE  UNCHANGED <<bstatus, total, stage, sub, paid>>
    BY <1>10 DEF ReleaseEligible, batches, requests
  <1>11. CASE UNCHANGED pvars
    BY <1>11 DEF pvars
  <1> QED
    BY <1>1, <1>2, <1>3, <1>4, <1>5, <1>6, <1>7, <1>8, <1>9, <1>10, <1>11 DEF PayoutNext

\* submit_batch gives up its row lock before it calls the provider; nevertheless
\* the provider transfers a batch's total at most once, and only if the batch
\* was approved, whatever submissions run in parallel or die after the call.
THEOREM NoDoublePayment == PayoutSpec => []PaidOnce
  <1>1. PaidInv => PaidOnce
    BY DEF PaidInv, TransferIsKeyed, PaidOnce
  <1> QED
    BY <1>1, ShapeInit, ShapeNext, PaidInit, PaidNext, PTL DEF PayoutSpec

-----------------------------------------------------------------------------
(* The ledger of the earnings in batches *)

\* What the rows of an earning say, and what the batch that has it was told
LedgerType ==
    /\ rule \in [Earnings -> Plans \cup {NULL}]
    /\ net \in [Earnings -> Int]
    /\ adjusted \in [Earnings -> Int]
    /\ recorded \in [Earnings -> SUBSET Adjustments]
    /\ counted \in [Earnings -> SUBSET Adjustments]
    /\ plan \in Plans \cup {NULL}

\* recognize_earning writes the net amount and the snapshot's rule together, and
\* adjust_earning adds an adjustment's row and its amount.
RowsAgree ==
    \A e \in Earnings :
        /\ estatus[e] # "NONE" => rule[e] \in Plans /\ net[e] = Compensation(rule[e])
        /\ adjusted[e] = SumOf(Change, recorded[e])

\* A batch's earnings are put into it when it is made.
NewIsEmpty == \A e \in Earnings : ebatch[e] # NULL => bstatus[ebatch[e]] # "NONE"

LedgerInv == Shape /\ BatchedIsPast /\ LedgerType /\ RowsAgree /\ NewIsEmpty

\* owed and BatchIsOwed, written with SumOf
OwedIsSum ==
    \A e \in Earnings :
        ebatch[e] # NULL => owed[e] = Compensation(rule[e]) + SumOf(Change, counted[e])
BatchIsSum == \A b \in Batches : total[b] = SumOf(owed, {e \in Earnings : ebatch[e] = b})

LEMMA OwedSums == OwedIsSum
  BY DEF OwedIsSum, owed, SumOf

LEMMA OwedSumsNext == OwedIsSum'
  BY OwedSums, PTL

LEMMA LedgerInit == PayoutInit => LedgerInv /\ BatchIsSum
  <1> SUFFICES ASSUME PayoutInit PROVE LedgerInv /\ BatchIsSum
    OBVIOUS
  <1>1. LedgerInv
    BY ShapeInit, PastInit, SumEmpty DEF PayoutInit, LedgerInv, LedgerType, RowsAgree, NewIsEmpty
  <1>2. \A b \in Batches : {e \in Earnings : ebatch[e] = b} = {} /\ total[b] = 0
    BY PayoutNullAssumption DEF PayoutInit
  <1>3. SumOf(owed, {}) = 0
    BY SumEmpty
  <1>4. ASSUME NEW b \in Batches PROVE total[b] = SumOf(owed, {e \in Earnings : ebatch[e] = b})
    BY <1>2, <1>3
  <1> QED
    BY <1>1, <1>4 DEF BatchIsSum

LEMMA CompensationType == \A p \in Plans : Compensation(p) \in Int
  BY PlanAssumption DEF Compensation

\* What a set of an earning's adjustments amounts to
LEMMA ChangeType == \A K \in SUBSET Adjustments : IsFiniteSet(K) /\ SumOf(Change, K) \in Int
  BY FiniteAssumption, AdjustmentAssumption, FS_Subset, SumType

LEMMA LedgerNext == LedgerType /\ RowsAgree /\ [PayoutNext]_pvars => LedgerType' /\ RowsAgree'
  <1> SUFFICES ASSUME LedgerType, RowsAgree, [PayoutNext]_pvars PROVE LedgerType' /\ RowsAgree'
    OBVIOUS
  <1>1. CASE UNCHANGED <<plan, estatus, rule, net, adjusted, recorded, counted>>
    BY <1>1 DEF LedgerType, RowsAgree
  <1>2. ASSUME NEW e \in Earnings, Recognize(e) PROVE LedgerType' /\ RowsAgree'
    <2>1. plan \in Plans /\ Compensation(plan) \in Int
      BY <1>2, CompensationType DEF Recognize, LedgerType
    <2> QED
      BY <1>2, <2>1 DEF Recognize, LedgerType, RowsAgree
  <1>3. ASSUME NEW e \in Earnings, NEW k \in Adjustments, Adjust(e, k)
        PROVE  LedgerType' /\ RowsAgree'
    <2>1. /\ k \notin recorded[e]
          /\ recorded' = [recorded EXCEPT ![e] = @ \cup {k}]
          /\ adjusted' = [adjusted EXCEPT ![e] = @ + Change[k]]
          /\ estatus' = [estatus EXCEPT ![e] = StatusAfter(e, k)]
          /\ estatus[e] # "NONE"
          /\ UNCHANGED <<plan, rule, net, counted>>
      BY <1>3 DEF Adjust, New
    <2>2. recorded[e] \subseteq Adjustments /\ IsFiniteSet(recorded[e])
      BY ChangeType DEF LedgerType
    <2>3. \A x \in Adjustments : Change[x] \in Int
      BY AdjustmentAssumption
    <2>4. SumOf(Change, recorded[e] \cup {k}) = SumOf(Change, recorded[e]) + Change[k]
      BY <2>1, <2>2, <2>3, SumAdds
    <2>5. LedgerType'
      BY <2>1, <2>3 DEF LedgerType
    <2>6. ASSUME NEW x \in Earnings PROVE adjusted'[x] = SumOf(Change, recorded'[x])
      BY <2>1, <2>4 DEF LedgerType, RowsAgree
    <2>7. ASSUME NEW x \in Earnings, estatus'[x] # "NONE" PROVE estatus[x] # "NONE"
      BY <2>1, <2>7
    <2>8. ASSUME NEW x \in Earnings, estatus'[x] # "NONE"
          PROVE  rule'[x] \in Plans /\ net'[x] = Compensation(rule'[x])
      BY <2>1, <2>7, <2>8 DEF RowsAgree
    <2>9. RowsAgree'
      BY <2>6, <2>8 DEF RowsAgree, Compensation
    <2> QED
      BY <2>5, <2>9
  <1>4. ASSUME NEW p \in Plans, CreatePlan(p) PROVE LedgerType' /\ RowsAgree'
    BY <1>4 DEF CreatePlan, earnings, LedgerType, RowsAgree, Compensation
  <1>5. ASSUME NEW e \in Earnings, HoldEnds(e) PROVE LedgerType' /\ RowsAgree'
    BY <1>1, <1>5 DEF HoldEnds
  <1>6. ASSUME NEW S \in SUBSET Earnings, ReleaseEligible(S) PROVE LedgerType' /\ RowsAgree'
    <2>1. /\ UNCHANGED <<plan, rule, net, adjusted, recorded, counted>>
          /\ \A e \in Earnings : estatus'[e] # "NONE" => estatus[e] # "NONE"
      BY <1>6 DEF ReleaseEligible, Releasable
    <2> QED
      BY <2>1 DEF LedgerType, RowsAgree, Compensation
  <1>7. ASSUME NEW S \in SUBSET Earnings, NEW b \in Batches, CreateBatch(b, S)
        PROVE  LedgerType' /\ RowsAgree'
    <2>1. /\ UNCHANGED <<plan, rule, net, adjusted, recorded>>
          /\ counted' = [e \in Earnings |-> IF e \in S THEN recorded[e] ELSE counted[e]]
          /\ \A e \in Earnings : estatus'[e] # "NONE" => estatus[e] # "NONE"
      BY <1>7 DEF CreateBatch, Available
    <2> QED
      BY <2>1 DEF LedgerType, RowsAgree, Compensation
  <1>8. ASSUME NEW b \in Batches, Approve(b) \/ \E r \in Requests : BeginSubmit(r, b)
        PROVE  LedgerType' /\ RowsAgree'
    BY <1>1, <1>8 DEF Approve, BeginSubmit, earnings
  <1>9. ASSUME NEW r \in Requests, CallGateway(r) \/ CommitSubmit(r) \/ AbortSubmit(r)
        PROVE  LedgerType' /\ RowsAgree'
    BY <1>1, <1>9 DEF CallGateway, CommitSubmit, AbortSubmit, earnings
  <1>10. CASE Toggle
    BY <1>1, <1>10 DEF Toggle, earnings
  <1>11. CASE UNCHANGED pvars
    BY <1>1, <1>11 DEF pvars
  <1> QED
    BY <1>2, <1>3, <1>4, <1>5, <1>6, <1>7, <1>8, <1>9, <1>10, <1>11 DEF PayoutNext

LEMMA EmptyNext == Shape /\ NewIsEmpty /\ [PayoutNext]_pvars => NewIsEmpty'
  <1> SUFFICES ASSUME Shape, NewIsEmpty, [PayoutNext]_pvars PROVE NewIsEmpty'
    OBVIOUS
  <1> USE DEF Shape, NewIsEmpty, PayoutStatus
  <1>1. CASE UNCHANGED <<ebatch, bstatus>>
    BY <1>1
  <1>2. ASSUME NEW S \in SUBSET Earnings, NEW b \in Batches, CreateBatch(b, S) PROVE NewIsEmpty'
    BY <1>2 DEF CreateBatch
  <1>3. ASSUME NEW b \in Batches, Approve(b) PROVE NewIsEmpty'
    BY <1>3 DEF Approve, earnings
  <1>4. ASSUME NEW r \in Requests, CommitSubmit(r) PROVE NewIsEmpty'
    BY <1>4 DEF CommitSubmit, earnings
  <1>5. ASSUME NEW r \in Requests, CallGateway(r) \/ AbortSubmit(r) \/ \E b \in Batches : BeginSubmit(r, b)
        PROVE  UNCHANGED <<ebatch, bstatus>>
    BY <1>5 DEF CallGateway, AbortSubmit, BeginSubmit, earnings, batches
  <1>6. ASSUME Toggle \/ \E p \in Plans : CreatePlan(p) PROVE UNCHANGED <<ebatch, bstatus>>
    BY <1>6 DEF Toggle, CreatePlan, earnings, batches
  <1>7. ASSUME NEW e \in Earnings,
               Recognize(e) \/ HoldEnds(e) \/ \E k \in Adjustments : Adjust(e, k)
        PROVE  UNCHANGED <<ebatch, bstatus>>
    BY <1>7 DEF Recognize, HoldEnds, Adjust, batches
  <1>8. ASSUME NEW S \in SUBSET Earnings, ReleaseEligible(S) PROVE UNCHANGED <<ebatch, bstatus>>
    BY <1>8 DEF ReleaseEligible, batches
  <1>9. CASE UNCHANGED pvars
    BY <1>9 DEF pvars
  <1> QED
    BY <1>1, <1>2, <1>3, <1>4, <1>5, <1>6, <1>7, <1>8, <1>9 DEF PayoutNext

\* What is owed for the earnings of a batch is a finite sum of integers.
LEMMA OwedType ==
    ASSUME LedgerInv, NEW e \in Earnings, ebatch[e] # NULL
    PROVE  /\ owed[e] = Compensation(rule[e]) + SumOf(Change, counted[e])
           /\ owed[e] \in Int
  <1>1. owed[e] = Compensation(rule[e]) + SumOf(Change, counted[e])
    BY OwedSums DEF OwedIsSum
  <1>2. rule[e] \in Plans /\ counted[e] \in SUBSET Adjustments
    BY DEF LedgerInv, BatchedIsPast, RowsAgree, LedgerType
  <1> QED
    BY <1>1, <1>2, CompensationType, ChangeType

\* An earning in a batch keeps what is owed for it: its rule was written when the job
\* was completed and the keys when the batch was made.
LEMMA OwedStays ==
    ASSUME LedgerInv, LedgerInv', [PayoutNext]_pvars, NEW e \in Earnings, ebatch[e] # NULL
    PROVE  ebatch'[e] = ebatch[e] /\ owed'[e] = owed[e]
  <1>0. estatus[e] \notin {"NONE", "PENDING", "AVAILABLE"}
    BY DEF LedgerInv, BatchedIsPast
  <1>1. ebatch'[e] = ebatch[e]
    BY PastNext DEF LedgerInv
  <1>2. rule'[e] = rule[e] /\ counted'[e] = counted[e]
    <2> USE <1>0 DEF LedgerInv, LedgerType
    <2>1. CASE UNCHANGED <<rule, counted>>
      BY <2>1
    <2>2. ASSUME NEW x \in Earnings, Recognize(x) PROVE rule'[e] = rule[e] /\ counted'[e] = counted[e]
      BY <2>2 DEF Recognize
    <2>3. ASSUME NEW S \in SUBSET Earnings, NEW b \in Batches, CreateBatch(b, S)
          PROVE  rule'[e] = rule[e] /\ counted'[e] = counted[e]
      BY <2>3 DEF CreateBatch, Available
    <2>4. ASSUME NEW x \in Earnings, HoldEnds(x) \/ \E k \in Adjustments : Adjust(x, k)
          PROVE  UNCHANGED <<rule, counted>>
      BY <2>4 DEF HoldEnds, Adjust
    <2>5. ASSUME NEW S \in SUBSET Earnings, ReleaseEligible(S) PROVE UNCHANGED <<rule, counted>>
      BY <2>5 DEF ReleaseEligible
    <2>6. ASSUME Toggle \/ \E p \in Plans : CreatePlan(p) PROVE UNCHANGED <<rule, counted>>
      BY <2>6 DEF Toggle, CreatePlan, earnings
    <2>7. ASSUME NEW b \in Batches, Approve(b) \/ \E r \in Requests : BeginSubmit(r, b)
          PROVE  UNCHANGED <<rule, counted>>
      BY <2>7 DEF Approve, BeginSubmit, earnings
    <2>8. ASSUME NEW r \in Requests, CallGateway(r) \/ CommitSubmit(r) \/ AbortSubmit(r)
          PROVE  UNCHANGED <<rule, counted>>
      BY <2>8 DEF CallGateway, CommitSubmit, AbortSubmit, earnings
    <2>9. CASE UNCHANGED pvars
      BY <2>9 DEF pvars
    <2> QED
      BY <2>1, <2>2, <2>3, <2>4, <2>5, <2>6, <2>7, <2>8, <2>9 DEF PayoutNext
  <1>3. owed[e] = Compensation(rule[e]) + SumOf(Change, counted[e])
    BY OwedType
  <1>4. owed'[e] = Compensation(rule'[e]) + SumOf(Change, counted'[e])
    BY <1>1, OwedSumsNext DEF OwedIsSum, Compensation
  <1> QED
    BY <1>1, <1>2, <1>3, <1>4

\* The sum a batch was made with stays what is owed for the earnings that it has.
LEMMA OwedNext ==
    ASSUME LedgerInv, LedgerInv', BatchIsSum, [PayoutNext]_pvars
    PROVE  BatchIsSum'
  <1> DEFINE In(b) == {e \in Earnings : ebatch[e] = b}
             In2(b) == {e \in Earnings : ebatch'[e] = b}
  <1>1. \A b \in Batches : total[b] = SumOf(owed, In(b))
    BY DEF BatchIsSum
  <1>2. \A b \in Batches : IsFiniteSet(In(b)) /\ b # NULL
    BY FiniteAssumption, PayoutNullAssumption, FS_Subset
  <1>3. ASSUME NEW b \in Batches, In2(b) = In(b), total'[b] = total[b]
        PROVE  total'[b] = SumOf(owed', In2(b))
    <2>1. \A e \in In(b) : owed[e] \in Int /\ owed'[e] = owed[e]
      BY <1>2, OwedType, OwedStays
    <2>2. SumOf(owed, In(b)) = SumOf(owed', In(b))
      BY <1>2, <2>1, SumCongruent
    <2> QED
      BY <1>1, <1>3, <2>2
  <1>4. ASSUME UNCHANGED <<ebatch, total>> PROVE \A b \in Batches : total'[b] = SumOf(owed', In2(b))
    BY <1>3, <1>4
  <1>5. ASSUME NEW S \in SUBSET Earnings, NEW c \in Batches, CreateBatch(c, S), NEW b \in Batches
        PROVE  total'[b] = SumOf(owed', In2(b))
    <2>1. /\ bstatus[c] = "NONE"
          /\ \A e \in S : estatus[e] = "AVAILABLE"
          /\ total' = [total EXCEPT ![c] = SumOf(payable, S)]
          /\ ebatch' = [e \in Earnings |-> IF e \in S THEN c ELSE ebatch[e]]
          /\ counted' = [e \in Earnings |-> IF e \in S THEN recorded[e] ELSE counted[e]]
          /\ UNCHANGED rule
      BY <1>5 DEF CreateBatch, Available, SumOf
    <2>2. \A e \in S : ebatch[e] = NULL
      BY <2>1 DEF LedgerInv, BatchedIsPast
    <2>3. total = [x \in Batches |-> total[x]]
      BY DEF LedgerInv, Shape
    <2>4. CASE b = c
      <3>1. In(c) = {} /\ In2(c) = S
        BY <2>1, <1>2 DEF LedgerInv, NewIsEmpty
      <3>2. \A e \in S : payable[e] \in Int /\ owed'[e] = payable[e]
        <4> SUFFICES ASSUME NEW e \in S PROVE payable[e] \in Int /\ owed'[e] = payable[e]
          OBVIOUS
        <4>1. payable[e] = net[e] + adjusted[e] /\ net[e] \in Int /\ adjusted[e] \in Int
          BY DEF payable, LedgerInv, LedgerType
        <4>2. net[e] = Compensation(rule[e]) /\ adjusted[e] = SumOf(Change, recorded[e])
          BY <2>1 DEF LedgerInv, RowsAgree
        <4>3. e \in Earnings /\ ebatch'[e] # NULL
          BY <1>2, <2>1
        <4>4. owed'[e] = Compensation(rule'[e]) + SumOf(Change, counted'[e])
          BY <4>3, OwedSumsNext DEF OwedIsSum, Compensation
        <4> QED
          BY <2>1, <4>1, <4>2, <4>4
      <3>3. IsFiniteSet(S)
        BY FiniteAssumption, FS_Subset
      <3>4. SumOf(payable, S) = SumOf(owed', S)
        BY <3>2, <3>3, SumCongruent
      <3> QED
        BY <2>1, <2>3, <2>4, <3>1, <3>4
    <2>5. CASE b # c
      <3>1. In2(b) = In(b)
        BY <1>2, <2>1, <2>2, <2>5
      <3>2. total'[b] = total[b]
        BY <2>1, <2>3, <2>5
      <3> QED
        BY <1>3, <3>1, <3>2
    <2> QED
      BY <2>4, <2>5
  <1>6. ASSUME Toggle \/ \E p \in Plans : CreatePlan(p) PROVE UNCHANGED <<ebatch, total>>
    BY <1>6 DEF Toggle, CreatePlan, earnings, batches
  <1>7. ASSUME NEW e \in Earnings,
               Recognize(e) \/ HoldEnds(e) \/ \E k \in Adjustments : Adjust(e, k)
        PROVE  UNCHANGED <<ebatch, total>>
    BY <1>7 DEF Recognize, HoldEnds, Adjust, batches
  <1>8. ASSUME NEW S \in SUBSET Earnings, ReleaseEligible(S) PROVE UNCHANGED <<ebatch, total>>
    BY <1>8 DEF ReleaseEligible, batches
  <1>9. ASSUME NEW b \in Batches, Approve(b) \/ \E r \in Requests : BeginSubmit(r, b)
        PROVE  UNCHANGED <<ebatch, total>>
    BY <1>9 DEF Approve, BeginSubmit, earnings, batches
  <1>10. ASSUME NEW r \in Requests, CallGateway(r) \/ CommitSubmit(r) \/ AbortSubmit(r)
         PROVE  UNCHANGED <<ebatch, total>>
    BY <1>10 DEF CallGateway, CommitSubmit, AbortSubmit, earnings, batches
  <1>11. ASSUME UNCHANGED pvars PROVE UNCHANGED <<ebatch, total>>
    BY <1>11 DEF pvars
  <1>12. \A b \in Batches : total'[b] = SumOf(owed', In2(b))
    BY <1>4, <1>5, <1>6, <1>7, <1>8, <1>9, <1>10, <1>11 DEF PayoutNext
  <1> QED
    BY <1>12 DEF BatchIsSum

\* Whatever plans, retries, disputes and batch runs come, a batch pays what the plan of
\* the day of completion and the adjustments recorded by then say of each of its
\* earnings, each adjustment counted once (recognize_earning, adjust_earning,
\* create_batch).
THEOREM BatchesPayTheLedger == PayoutSpec => []BatchIsOwed
  <1>1. LedgerInv /\ [PayoutNext]_pvars => LedgerInv'
    BY ShapeNext, PastNext, LedgerNext, EmptyNext DEF LedgerInv
  <1>2. LedgerInv /\ BatchIsSum /\ [PayoutNext]_pvars => BatchIsSum'
    BY <1>1, OwedNext
  <1>3. BatchIsSum => BatchIsOwed
    BY DEF BatchIsSum, BatchIsOwed, SumOf
  <1> QED
    BY <1>1, <1>2, <1>3, LedgerInit, PTL DEF PayoutSpec
=============================================================================
