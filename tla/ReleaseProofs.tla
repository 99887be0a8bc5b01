--------------------------- MODULE ReleaseProofs ---------------------------
(***************************************************************************)
(* Theorems about Release: the uploaded evidence is a rollout, was         *)
(* uploaded at the end of reads that saw both heads at one moment, and is  *)
(* of a commit that does nothing on its own.                               *)
(*                                                                         *)
(* Many lemmas are about recursive definitions.  The provers have no       *)
(* induction; what stands in for it is that every nonempty set of naturals *)
(* has a least element (WFMin), that a monotone equation between sets has  *)
(* a greatest solution, and that what is reached lies in every closed set. *)
(***************************************************************************)
EXTENDS Release, FiniteSetTheorems, WellFoundedInduction, TLAPS

\* A job that is reading, and what it reads
InJob(r) == run[r].st \in {"verify", "recheck"}
Reading(r) == Steps(Tree(run[r].source), run[r].st)

\* What is counted by the changes of the world
Counted ==
  /\ Len(main) \in 1 .. changes + 1
  /\ Len(ctl) >= 1
  /\ IsFiniteSet(images) /\ Cardinality(images) <= changes + 2

\* A check that concluded success did so on what it was computed from.
Concluded ==
  \A i \in 1 .. Len(main) : main[i].check = "success" => ConcludesSuccess(Tree(i))

\* A run is about a commit of main, a later phase names a run before it, and the
\* controller head it read was one.
Sourced(r) ==
  /\ run[r].st # "idle" => /\ run[r].source \in 1 .. Len(main)
                           /\ run[r].phase # "plan" => run[r].prior \in Runs
  /\ run[r].read # NULL => run[r].read <= Len(ctl)

\* What the reads that a job has behind it have shown.  A head read between two
\* candidate reads sees both heads where they should be, or else the
\* controller's has moved on and the second candidate read will refuse.
Passed(r) ==
  LET q    == Reading(r)
      past == 1 .. run[r].pc - 1
  IN  /\ run[r].pc \in 1 .. Len(q)
      /\ \A i \in past :
           /\ q[i] = "checks" => ValidTree(Tree(run[r].source))
           /\ q[i] = "prior" => run[r].slow /\ PriorOK(r)
           /\ q[i] = "candidate" => run[r].read # NULL
      /\ \A p, c, g \in past :
           q[p] = "prior" /\ q[c] = "candidate" /\ q[g] = "head" /\ p < g /\ c < g =>
             /\ run[r].joint \/ run[r].read < Len(ctl)
             /\ \A d \in past : q[d] = "candidate" /\ g < d => run[r].joint

\* A protected job starts, and a run ends, only for a commit that the contract
\* check accepts.
Evidenced(r) ==
  run[r].st \in {"waiting", "recheck", "done"} \/ run[r].evidence # NULL =>
    run[r].st # "idle" /\ ValidTree(Tree(run[r].source))

RunInv(r) ==
  /\ Sourced(r)
  /\ InJob(r) => Passed(r)
  /\ Evidenced(r)
  /\ run[r].st = "done" => run[r].joint

AdmissionInv == TypeOK /\ Counted /\ Concluded /\ \A r \in Runs : RunInv(r)

---------------------------------------------------------------------------
(* Induction *)

LEMMA LeastOf ==
  ASSUME NEW T, T \subseteq Nat, T # {}
  PROVE  \E m \in T : \A k \in T : m <= k
  <1>1. PICK m \in T : \A k \in T : ~(<<k, m>> \in OpToRel(<, Nat))
    BY NatLessThanWellFounded, WFMin, Zenon
  <1>2. \A k \in T : ~(k < m)
    BY <1>1, Zenon DEF OpToRel
  <1> QED
    BY <1>2

\* A set with 0 and all successors holds every natural number.
LEMMA Inductive ==
  ASSUME NEW T, 0 \in T, \A n \in Nat : n \in T => n + 1 \in T
  PROVE  Nat \subseteq T
  <1> SUFFICES ASSUME Nat \ T # {} PROVE FALSE
    OBVIOUS
  <1>1. PICK m \in Nat \ T : \A k \in Nat \ T : m <= k
    BY LeastOf
  <1>2. m # 0 /\ m - 1 \in Nat /\ m - 1 \in T
    BY <1>1
  <1> QED
    BY <1>1, <1>2

---------------------------------------------------------------------------
(* What the release validator binds is what the check is computed from *)

\* The recursive definition of ReferencesImmutable has a solution: the greatest.
LEMMA FollowExists ==
  ASSUME NEW t
  PROVE  \E f : f = [seen \in SUBSET DOMAIN t.actions |->
               {x \in DOMAIN t.actions \ seen :
                  /\ ImageImmutable(t.actions[x])
                  /\ \A y \in t.actions[x].uses : y \in Immutable \/ y \in f[seen \cup {x}]}]
  <1> DEFINE A == DOMAIN t.actions
             Unfolded(f, seen) ==
               {x \in DOMAIN t.actions \ seen :
                  /\ ImageImmutable(t.actions[x])
                  /\ \A y \in t.actions[x].uses : y \in Immutable \/ y \in f[seen \cup {x}]}
             Post == {g \in [SUBSET A -> SUBSET A] : \A s \in SUBSET A : g[s] \subseteq Unfolded(g, s)}
             W == [s \in SUBSET A |-> {x \in A : \E g \in Post : x \in g[s]}]
             V == [s \in SUBSET A |-> Unfolded(W, s)]
  <1>1. W \in [SUBSET A -> SUBSET A] /\ V \in [SUBSET A -> SUBSET A]
    OBVIOUS
  <1>2. ASSUME NEW g \in [SUBSET A -> SUBSET A], NEW h \in [SUBSET A -> SUBSET A],
               \A s \in SUBSET A : g[s] \subseteq h[s],
               NEW s \in SUBSET A
        PROVE  Unfolded(g, s) \subseteq Unfolded(h, s)
    <2> SUFFICES ASSUME NEW x \in Unfolded(g, s) PROVE x \in Unfolded(h, s)
      OBVIOUS
    <2>1. s \cup {x} \in SUBSET A
      OBVIOUS
    <2> QED
      BY <1>2, <2>1
  <1>3. \A g \in Post : \A s \in SUBSET A : g[s] \subseteq W[s]
    OBVIOUS
  <1>4. \A s \in SUBSET A : W[s] \subseteq Unfolded(W, s)
    <2> SUFFICES ASSUME NEW s \in SUBSET A, NEW x \in W[s] PROVE x \in Unfolded(W, s)
      OBVIOUS
    <2>1. PICK g \in Post : x \in g[s]
      OBVIOUS
    <2>2. x \in Unfolded(g, s) /\ g \in [SUBSET A -> SUBSET A]
      BY <2>1
    <2> HIDE DEF Unfolded, Post, W
    <2> QED
      BY <1>1, <1>2, <1>3, <2>1, <2>2
  <1>5. \A s \in SUBSET A : V[s] = Unfolded(W, s)
    OBVIOUS
  <1>6. V \in Post
    <2> HIDE DEF Unfolded, W, V
    <2>1. \A s \in SUBSET A : W[s] \subseteq V[s]
      BY <1>4, <1>5
    <2>2. \A s \in SUBSET A : Unfolded(W, s) \subseteq Unfolded(V, s)
      BY <1>1, <1>2, <2>1
    <2> QED
      BY <1>1, <1>5, <2>2
  <1>7. \A s \in SUBSET A : W[s] = Unfolded(W, s)
    <2> HIDE DEF Unfolded, W, V, Post
    <2> QED
      BY <1>3, <1>4, <1>5, <1>6
  <1>8. W = [seen \in SUBSET A |-> Unfolded(W, seen)]
    <2>1. W = [s \in SUBSET A |-> W[s]]
      OBVIOUS
    <2> HIDE DEF Unfolded, W
    <2> QED
      BY <1>7, <2>1
  <1> HIDE DEF W
  <1> QED
    BY <1>8

\* What is followed has an image that is fixed, and names content or actions that
\* are followed too.
LEMMA Followed ==
  ASSUME NEW t, NEW w, ReferencesImmutable(t, w)
  PROVE  \E G \in SUBSET DOMAIN t.actions :
           /\ w \in G
           /\ \A x \in G : /\ ImageImmutable(t.actions[x])
                           /\ \A y \in t.actions[x].uses : y \in Immutable \/ y \in G
  <1> DEFINE A == DOMAIN t.actions
             Follow[seen \in SUBSET DOMAIN t.actions] ==
               {x \in DOMAIN t.actions \ seen :
                  /\ ImageImmutable(t.actions[x])
                  /\ \A y \in t.actions[x].uses : y \in Immutable \/ y \in Follow[seen \cup {x}]}
             G == {x \in A : \E s \in SUBSET A : x \in Follow[s]}
  <1>1. w \in Follow[{}]
    BY DEF ReferencesImmutable
  <1>2. \E f : f = [seen \in SUBSET DOMAIN t.actions |->
               {x \in DOMAIN t.actions \ seen :
                  /\ ImageImmutable(t.actions[x])
                  /\ \A y \in t.actions[x].uses : y \in Immutable \/ y \in f[seen \cup {x}]}]
    BY FollowExists
  <1>3. Follow = [seen \in SUBSET DOMAIN t.actions |->
               {x \in DOMAIN t.actions \ seen :
                  /\ ImageImmutable(t.actions[x])
                  /\ \A y \in t.actions[x].uses : y \in Immutable \/ y \in Follow[seen \cup {x}]}]
    BY <1>2, Zenon
  <1> HIDE DEF Follow
  <1>4. \A s \in SUBSET A : \A x \in Follow[s] :
           /\ x \in A /\ ImageImmutable(t.actions[x])
           /\ \A y \in t.actions[x].uses : y \in Immutable \/ y \in Follow[s \cup {x}]
    <2> SUFFICES ASSUME NEW s \in SUBSET A, NEW x \in Follow[s]
                 PROVE  /\ x \in A /\ ImageImmutable(t.actions[x])
                        /\ \A y \in t.actions[x].uses : y \in Immutable \/ y \in Follow[s \cup {x}]
      OBVIOUS
    <2>1. Follow[s] = {z \in DOMAIN t.actions \ s :
                  /\ ImageImmutable(t.actions[z])
                  /\ \A y \in t.actions[z].uses : y \in Immutable \/ y \in Follow[s \cup {z}]}
      BY <1>3, Zenon
    <2> QED
      BY <2>1, Zenon
  <1>5. w \in G
    BY <1>1, <1>4
  <1>6. ASSUME NEW x \in G
        PROVE  /\ ImageImmutable(t.actions[x])
               /\ \A y \in t.actions[x].uses : y \in Immutable \/ y \in G
    <2>1. PICK s \in SUBSET A : x \in Follow[s]
      OBVIOUS
    <2>2. s \cup {x} \in SUBSET A
      OBVIOUS
    <2> QED
      BY <1>4, <2>1, <2>2
  <1> QED
    BY <1>5, <1>6

\* The steps by which ActionsUsed follows the local actions of a check
LEMMA ReachExists ==
  ASSUME NEW t, NEW K \in Nat
  PROVE  \E g : g = [n \in 0 .. K |->
               IF n = 0 THEN DOMAIN t.checks
               ELSE g[n - 1] \cup
                      (DOMAIN t.actions \cap
                         UNION {t.actions[x].uses : x \in g[n - 1] \cap DOMAIN t.actions})]
  <1> DEFINE More(S) == S \cup (DOMAIN t.actions \cap
                                  UNION {t.actions[x].uses : x \in S \cap DOMAIN t.actions})
             Solves(g, k) == g = [n \in 0 .. k |-> IF n = 0 THEN DOMAIN t.checks ELSE More(g[n - 1])]
             T == {k \in Nat : \E g : Solves(g, k)}
  <1> HIDE DEF More
  <1>1. 0 \in T
    <2> DEFINE g == [n \in 0 .. 0 |-> DOMAIN t.checks]
    <2>1. Solves(g, 0)
      OBVIOUS
    <2> HIDE DEF g, Solves
    <2> QED
      BY <2>1
  <1>2. ASSUME NEW k \in Nat, k \in T PROVE k + 1 \in T
    <2>1. PICK g : Solves(g, k)
      BY <1>2
    <2> DEFINE h == [n \in 0 .. k + 1 |-> IF n = k + 1 THEN More(g[k]) ELSE g[n]]
    <2>2. ASSUME NEW n \in 0 .. k + 1
          PROVE  h[n] = IF n = 0 THEN DOMAIN t.checks ELSE More(h[n - 1])
      <3>1. CASE n = k + 1
        <4>1. h[n - 1] = g[k] /\ h[n] = More(g[k]) /\ n # 0
          BY <3>1
        <4> QED
          BY <4>1
      <3>2. CASE n # k + 1
        <4>1. n \in 0 .. k /\ h[n] = g[n] /\ (n # 0 => h[n - 1] = g[n - 1])
          BY <3>2
        <4>2. g[n] = IF n = 0 THEN DOMAIN t.checks ELSE More(g[n - 1])
          BY <2>1, <4>1
        <4> QED
          BY <4>1, <4>2
      <3> QED
        BY <3>1, <3>2
    <2>3. h = [n \in 0 .. k + 1 |-> h[n]]
      OBVIOUS
    <2> HIDE DEF h
    <2>4. Solves(h, k + 1)
      BY <2>2, <2>3
    <2> QED
      BY <2>4 DEF T
  <1> HIDE DEF Solves
  <1>3. Nat \subseteq T
    <2> HIDE DEF T
    <2> QED
      BY <1>1, <1>2, Inductive
  <1>4. \E g : Solves(g, K)
    BY <1>3
  <1> QED
    BY <1>4 DEF Solves, More

\* What ActionsUsed finds lies in every set of actions that holds the checks and
\* what its members use.
LEMMA UsedAreClosed ==
  ASSUME NEW t, IsFiniteSet(DOMAIN t.actions), NEW G, DOMAIN t.checks \subseteq G,
         \A x \in G : t.actions[x].uses \cap DOMAIN t.actions \subseteq G
  PROVE  ActionsUsed(t) \subseteq G
  <1> DEFINE K == Cardinality(DOMAIN t.actions)
             Reach[n \in 0 .. K] ==
               IF n = 0 THEN DOMAIN t.checks
               ELSE Reach[n - 1] \cup
                      (DOMAIN t.actions \cap
                         UNION {t.actions[x].uses : x \in Reach[n - 1] \cap DOMAIN t.actions})
  <1>1. K \in Nat
    BY FS_CardinalityType
  <1>2. ActionsUsed(t) = Reach[K]
    BY DEF ActionsUsed
  <1>3. \E g : g = [n \in 0 .. K |->
               IF n = 0 THEN DOMAIN t.checks
               ELSE g[n - 1] \cup
                      (DOMAIN t.actions \cap
                         UNION {t.actions[x].uses : x \in g[n - 1] \cap DOMAIN t.actions})]
    <2> HIDE DEF K
    <2> QED
      BY <1>1, ReachExists
  <1>4. Reach = [n \in 0 .. K |->
               IF n = 0 THEN DOMAIN t.checks
               ELSE Reach[n - 1] \cup
                      (DOMAIN t.actions \cap
                         UNION {t.actions[x].uses : x \in Reach[n - 1] \cap DOMAIN t.actions})]
    BY <1>3, Zenon
  <1> HIDE DEF K, Reach
  <1> DEFINE T == {k \in Nat : k \in 0 .. K => Reach[k] \subseteq G}
  <1>5. 0 \in T
    <2>1. 0 \in 0 .. K
      BY <1>1
    <2>2. Reach[0] = DOMAIN t.checks
      BY <1>4, <2>1, Zenon
    <2> QED
      BY <2>2
  <1>6. ASSUME NEW k \in Nat, k \in T PROVE k + 1 \in T
    <2> SUFFICES ASSUME k + 1 \in 0 .. K PROVE Reach[k + 1] \subseteq G
      OBVIOUS
    <2>1. k \in 0 .. K /\ k + 1 # 0 /\ (k + 1) - 1 = k
      BY <1>1
    <2>2. Reach[k + 1] = Reach[(k + 1) - 1] \cup
                      (DOMAIN t.actions \cap
                         UNION {t.actions[x].uses : x \in Reach[(k + 1) - 1] \cap DOMAIN t.actions})
      BY <1>4, <2>1, Zenon
    <2>3. Reach[k] \subseteq G
      BY <1>6, <2>1
    <2>4. Reach[k + 1] = Reach[k] \cup
                      (DOMAIN t.actions \cap
                         UNION {t.actions[x].uses : x \in Reach[k] \cap DOMAIN t.actions})
      BY <2>1, <2>2, Zenon
    <2> QED
      BY <2>3, <2>4
  <1>7. Nat \subseteq T
    <2> HIDE DEF T
    <2> QED
      BY <1>5, <1>6, Inductive
  <1> QED
    BY <1>1, <1>2, <1>7

\* A Dockerfile whose bases are fixed or earlier stages is fixed through them.
LEMMA StagesAreFixed ==
  ASSUME NEW a, NEW S, a.stages \in Seq(S), ImageImmutable(a)
  PROVE  a.image \in {"none", "Dockerfile", "digest"} /\ FixedImage(a)
  <1> DEFINE L == Len(a.stages)
             Fixed[i \in 0 .. L] ==
               i > 0 /\ \/ a.stages[i].base \in {"scratch", "digest"}
                        \/ \E j \in 1 .. i - 1 : a.stages[j].name = a.stages[i].base /\ Fixed[j]
  <1>1. a.image \in {"none", "Dockerfile", "digest"}
    BY DEF ImageImmutable
  <1>2. FixedImage(a) <=> (a.image = "Dockerfile" => \A i \in 1 .. L : Fixed[i])
    BY DEF FixedImage
  <1> SUFFICES ASSUME a.image = "Dockerfile" PROVE \A i \in 1 .. L : Fixed[i]
    BY <1>1, <1>2
  <1>3. \A i \in 1 .. L : \/ a.stages[i].base \in {"scratch", "digest"}
                          \/ \E j \in 1 .. i - 1 : a.stages[j].name = a.stages[i].base
    BY DEF ImageImmutable, DockerfileImmutable
  <1>4. L \in Nat
    OBVIOUS
  <1>5. \E f : f = [i \in 0 .. L |->
               i > 0 /\ \/ a.stages[i].base \in {"scratch", "digest"}
                        \/ \E j \in 1 .. i - 1 : a.stages[j].name = a.stages[i].base /\ f[j]]
    <2> HIDE DEF L
    <2> DEFINE f == [i \in 0 .. L |-> i > 0]
    <2>1. ASSUME NEW i \in 0 .. L
          PROVE  (i > 0) = (i > 0 /\ \/ a.stages[i].base \in {"scratch", "digest"}
                                     \/ \E j \in 1 .. i - 1 : a.stages[j].name = a.stages[i].base /\ f[j])
      <3>1. \A j \in 1 .. i - 1 : j \in 0 .. L /\ j > 0
        BY <1>4
      <3>2. \A j \in 1 .. i - 1 : f[j]
        BY <3>1, Zenon
      <3>3. i > 0 => i \in 1 .. L
        BY <1>4
      <3> HIDE DEF f
      <3>4. i > 0 => \/ a.stages[i].base \in {"scratch", "digest"}
                     \/ \E j \in 1 .. i - 1 : a.stages[j].name = a.stages[i].base /\ f[j]
        BY <1>3, <3>2, <3>3, Zenon
      <3> QED
        BY <3>4
    <2>2. f = [i \in 0 .. L |->
               i > 0 /\ \/ a.stages[i].base \in {"scratch", "digest"}
                        \/ \E j \in 1 .. i - 1 : a.stages[j].name = a.stages[i].base /\ f[j]]
      BY <2>1, Zenon
    <2> QED
      BY <2>2, Zenon
  <1>6. Fixed = [i \in 0 .. L |->
               i > 0 /\ \/ a.stages[i].base \in {"scratch", "digest"}
                        \/ \E j \in 1 .. i - 1 : a.stages[j].name = a.stages[i].base /\ Fixed[j]]
    BY <1>5, Zenon
  <1> HIDE DEF L, Fixed
  <1> DEFINE T == {i \in 1 .. L : ~Fixed[i]}
  <1> SUFFICES ASSUME T # {} PROVE FALSE
    BY Zenon
  <1>7. PICK i \in T : \A k \in T : i <= k
    <2>1. T \subseteq Nat
      BY <1>4
    <2> HIDE DEF T
    <2> QED
      BY <2>1, LeastOf
  <1>8. i \in 0 .. L /\ i > 0 /\ i \in 1 .. L /\ ~Fixed[i]
    <2>1. i \in 1 .. L /\ ~Fixed[i]
      BY Zenon
    <2> QED
      BY <1>4, <2>1
  <1>9. Fixed[i] = (i > 0 /\ \/ a.stages[i].base \in {"scratch", "digest"}
                             \/ \E j \in 1 .. i - 1 : a.stages[j].name = a.stages[i].base /\ Fixed[j])
    BY <1>6, <1>8, Zenon
  <1>10. \A j \in 1 .. i - 1 : j \in 1 .. L /\ ~(i <= j)
    BY <1>4, <1>8
  <1>11. \A j \in 1 .. i - 1 : Fixed[j]
    BY <1>7, <1>10, Zenon
  <1> QED
    BY <1>3, <1>8, <1>9, <1>11, Zenon

\* The release validator accepts only what the reference of SourceBinding calls
\* pinned: its recursive scan refuses everything that can be replaced.
THEOREM BoundIsPinned ==
  ASSUME NEW n \in DOMAIN Trees, CheckSourcesBound(Trees[n])
  PROVE  CheckIsPinned(Trees[n])
  <1> DEFINE t == Trees[n]
             Closed(H) == \A x \in H : /\ ImageImmutable(t.actions[x])
                                       /\ \A y \in t.actions[x].uses : y \in Immutable \/ y \in H
             G == UNION {H \in SUBSET DOMAIN t.actions : Closed(H)}
  <1>1. \A w \in DOMAIN t.checks : ReferencesImmutable(t, w)
    BY DEF CheckSourcesBound, DefinitionBound
  <1>2. DOMAIN t.checks \subseteq G
    <2> SUFFICES ASSUME NEW w \in DOMAIN t.checks PROVE w \in G
      OBVIOUS
    <2>1. PICK H \in SUBSET DOMAIN t.actions : w \in H /\ Closed(H)
      <3> HIDE DEF t
      <3> QED
        BY <1>1, Followed
    <2> QED
      BY <2>1
  <1>3. G \subseteq DOMAIN t.actions /\ Closed(G)
    OBVIOUS
  <1>4. IsFiniteSet(DOMAIN t.actions) /\ DOMAIN t.actions \cap Immutable = {}
    BY ActionAssumption
  <1>5. \A x \in G : t.actions[x].uses \cap DOMAIN t.actions \subseteq G
    <2> HIDE DEF G, t
    <2> QED
      BY <1>3, <1>4
  <1>6. ActionsUsed(t) \subseteq G
    <2> HIDE DEF G, t
    <2> QED
      BY <1>2, <1>4, <1>5, UsedAreClosed
  <1>7. ASSUME NEW x \in G
        PROVE  /\ t.actions[x].image \in {"none", "Dockerfile", "digest"} /\ FixedImage(t.actions[x])
               /\ t.actions[x].uses \subseteq Immutable \cup DOMAIN t.actions
    <2> HIDE DEF G
    <2>1. PICK a : a = t.actions[x]
      OBVIOUS
    <2>2. PICK S : a.stages \in Seq(S)
      BY <1>3, <2>1, ActionAssumption
    <2>3. ImageImmutable(a) /\ \A y \in a.uses : y \in Immutable \/ y \in G
      BY <1>3, <2>1
    <2>4. a.image \in {"none", "Dockerfile", "digest"} /\ FixedImage(a)
      BY <2>2, <2>3, StagesAreFixed
    <2> QED
      BY <1>3, <2>1, <2>3, <2>4
  <1>8. \A w \in DOMAIN t.checks : \A p \in {w} \cup t.checks[w] :
          p \in DOMAIN t.files /\ p \in DOMAIN t.pins.digests /\ t.files[p] = t.pins.digests[p]
    BY DEF CheckSourcesBound, DefinitionBound, ExecutablesBound, DigestHolds
  <1> HIDE DEF G
  <1> QED
    BY <1>3, <1>6, <1>7, <1>8 DEF CheckIsPinned

---------------------------------------------------------------------------
(* What the contract check admits is inert *)

\* The scans of the contract check go down a path of members of E, what was met
\* before, and say of every member of D whether they refuse it.
Scans(E, D) == [SUBSET E -> [D -> BOOLEAN]]

Monotone(F, E, D) ==
  \A g, h \in Scans(E, D) :
    (\A s \in SUBSET E : \A x \in D : g[s][x] => h[s][x])
      => \A s \in SUBSET E : \A x \in D : F[g][s][x] => F[h][s][x]

\* A monotone description of a scan has a solution: the greatest.
LEMMA GreatestSolution ==
  ASSUME NEW E, NEW D, NEW F \in [Scans(E, D) -> Scans(E, D)], Monotone(F, E, D)
  PROVE  \E w \in Scans(E, D) : w = F[w]
  <1> DEFINE M == Scans(E, D)
             Below(g, h) == \A s \in SUBSET E : \A x \in D : g[s][x] => h[s][x]
             Post == {g \in M : Below(g, F[g])}
             W == [s \in SUBSET E |-> [x \in D |-> \E g \in Post : g[s][x]]]
  <1>1. W \in M /\ F[W] \in M
    <2>1. W \in M
      BY DEF Scans
    <2> HIDE DEF W
    <2> QED
      BY <2>1
  <1>2. \A s \in SUBSET E : \A x \in D : W[s][x] <=> \E g \in Post : g[s][x]
    BY Zenon
  <1>3. \A g \in Post : g \in M /\ Below(g, F[g])
    BY Zenon
  <1>4. \A g \in M : Below(g, F[g]) => g \in Post
    BY Zenon
  <1> HIDE DEF W, Post, M, Below
  <1>5. \A g \in Post : Below(g, W)
    BY <1>2, Zenon DEF Below
  <1>6. \A g, h \in M : Below(g, h) => Below(F[g], F[h])
    BY Zenon DEF M, Monotone, Below
  <1>7. Below(W, F[W])
    <2> SUFFICES ASSUME NEW s \in SUBSET E, NEW x \in D, W[s][x] PROVE F[W][s][x]
      BY Zenon DEF Below
    <2>1. PICK g \in Post : g[s][x]
      BY <1>2, Zenon
    <2>2. Below(g, F[g]) /\ Below(F[g], F[W])
      BY <1>1, <1>3, <1>5, <1>6, Zenon
    <2> QED
      BY <2>1, <2>2, Zenon DEF Below
  <1>8. Below(F[W], W)
    BY <1>1, <1>4, <1>5, <1>6, <1>7, Zenon
  <1>9. ASSUME NEW s \in SUBSET E PROVE W[s] = F[W][s]
    <2>1. W[s] \in [D -> BOOLEAN] /\ F[W][s] \in [D -> BOOLEAN]
      BY <1>1 DEF M, Scans
    <2>2. ASSUME NEW x \in D PROVE W[s][x] = F[W][s][x]
      <3>1. W[s][x] \in BOOLEAN /\ F[W][s][x] \in BOOLEAN
        BY <2>1
      <3>2. W[s][x] <=> F[W][s][x]
        BY <1>7, <1>8, Zenon DEF Below
      <3> QED
        BY <3>1, <3>2, Zenon
    <2>3. W[s] = [x \in D |-> W[s][x]] /\ F[W][s] = [x \in D |-> F[W][s][x]]
      BY <2>1
    <2> QED
      BY <2>2, <2>3, Zenon
  <1>10. W = F[W]
    <2>1. W = [s \in SUBSET E |-> W[s]] /\ F[W] = [s \in SUBSET E |-> F[W][s]]
      BY <1>1 DEF M, Scans
    <2> QED
      BY <1>9, <2>1, Zenon
  <1> QED
    BY <1>1, <1>10, Zenon DEF M

\* The scan of Blocked
LEMMA BlockedScan ==
  ASSUME NEW jobs
  PROVE  \E w :
           /\ \A s \in SUBSET DOMAIN jobs : \A n \in DOMAIN jobs :
                w[s][n] <=>
                  \/ n \in s
                  \/ NeverHolds(jobs[n].when)
                  \/ \E m \in jobs[n].needs : m \notin DOMAIN jobs \/ w[s \cup {n}][m]
           /\ \A n \in DOMAIN jobs : Blocked(jobs, n) <=> w[{}][n]
  <1> DEFINE D == DOMAIN jobs
             M == Scans(D, D)
             Refused(w, s, n) ==
               \/ n \in s
               \/ NeverHolds(jobs[n].when)
               \/ \E m \in jobs[n].needs : m \notin D \/ w[s \cup {n}][m]
             F == [w \in M |-> [s \in SUBSET D |-> [n \in D |-> Refused(w, s, n)]]]
             Scan[seen \in SUBSET DOMAIN jobs] ==
               [n \in DOMAIN jobs |->
                  \/ n \in seen
                  \/ NeverHolds(jobs[n].when)
                  \/ \E m \in jobs[n].needs : m \notin DOMAIN jobs \/ Scan[seen \cup {n}][m]]
  <1>1. F \in [M -> M]
    <2>1. \A w, s, n : Refused(w, s, n) \in BOOLEAN
      OBVIOUS
    <2> HIDE DEF Refused
    <2> QED
      BY <2>1, Zenon DEF Scans
  <1>2. ASSUME NEW g \in M, NEW h \in M, \A s \in SUBSET D : \A n \in D : g[s][n] => h[s][n]
        PROVE  \A s \in SUBSET D : \A n \in D : F[g][s][n] => F[h][s][n]
    <2> SUFFICES ASSUME NEW s \in SUBSET D, NEW n \in D, F[g][s][n] PROVE F[h][s][n]
      BY Zenon
    <2>1. s \cup {n} \in SUBSET D
      OBVIOUS
    <2>2. Refused(g, s, n) => Refused(h, s, n)
      BY <1>2, <2>1, Zenon
    <2> HIDE DEF Refused
    <2> QED
      BY <2>2, Zenon
  <1>3. \E w : w = [s \in SUBSET D |-> [n \in D |-> Refused(w, s, n)]]
    <2>1. PICK w \in M : w = F[w]
      <3> HIDE DEF F, D
      <3>1. Monotone(F, D, D)
        BY <1>2, Zenon DEF Monotone
      <3> QED
        BY <1>1, <3>1, GreatestSolution, Zenon
    <2>2. F[w] = [s \in SUBSET D |-> [n \in D |-> Refused(w, s, n)]]
      <3> HIDE DEF Refused
      <3> QED
        BY Zenon
    <2> QED
      BY <2>1, <2>2, Zenon
  <1>4. Scan = [s \in SUBSET D |-> [n \in D |-> Refused(Scan, s, n)]]
    BY <1>3, Zenon
  <1>5. \A n : Blocked(jobs, n) <=> Scan[{}][n]
    BY DEF Blocked
  <1> HIDE DEF Scan
  <1>6. \A s \in SUBSET D : \A n \in D : Scan[s][n] <=> Refused(Scan, s, n)
    <2> HIDE DEF Refused
    <2>1. \A s \in SUBSET D : Scan[s] = [n \in D |-> Refused(Scan, s, n)]
      BY <1>4, Zenon
    <2> QED
      BY <2>1, Zenon
  <1> QED
    BY <1>5, <1>6, Zenon

\* A condition that holds in a run is not one that never holds.
LEMMA HoldsIsPossible ==
  ASSUME NEW jobs, NEW v \in WorkflowRuns(jobs), NEW when, UNION when \subseteq Literals(jobs),
         Holds(when, v)
  PROVE  ~NeverHolds(when)
  <1>1. PICK all \in when : \A l \in all : v[l]
    BY Zenon DEF Holds
  <1>2. \A l \in Literals(jobs) : l = "false" => ~v[l]
    BY DEF WorkflowRuns
  <1>3. "false" \notin all
    BY <1>1, <1>2
  <1> QED
    BY <1>3, Zenon DEF NeverHolds

\* A job that a run starts is not blocked: the jobs that no scan refuses, unless
\* one of them is on its path, are closed under finished needs.
LEMMA StartedIsFree ==
  ASSUME NEW jobs, NEW v \in WorkflowRuns(jobs), NEW n \in Started(jobs, v)
  PROVE  n \in DOMAIN jobs /\ ~Blocked(jobs, n)
  <1> DEFINE D == DOMAIN jobs
  <1>1. PICK w :
           /\ \A s \in SUBSET D : \A k \in D :
                w[s][k] <=>
                  \/ k \in s
                  \/ NeverHolds(jobs[k].when)
                  \/ \E m \in jobs[k].needs : m \notin D \/ w[s \cup {k}][m]
           /\ \A k \in D : Blocked(jobs, k) <=> w[{}][k]
    BY BlockedScan, Zenon
  <1> DEFINE Free(A) == \A a \in A : \A s \in SUBSET D : s \cap A = {} => ~w[s][a]
             S == UNION {A \in SUBSET D : Free(A)}
  <1>2. S \in SUBSET D
    OBVIOUS
  <1>3. Free(S)
    <2> SUFFICES ASSUME NEW a \in S, NEW s \in SUBSET D, s \cap S = {} PROVE ~w[s][a]
      BY Zenon
    <2>1. PICK A \in SUBSET D : a \in A /\ Free(A)
      BY Zenon
    <2>2. A \subseteq S
      BY <2>1, Zenon
    <2>3. s \cap A = {}
      <3> HIDE DEF S
      <3> QED
        BY <2>2
    <2> QED
      BY <2>1, <2>3, Zenon
  <1>4. ASSUME NEW k \in D, Holds(jobs[k].when, v), jobs[k].needs \subseteq S
        PROVE  k \in S
    <2> SUFFICES ASSUME k \notin S PROVE FALSE
      OBVIOUS
    <2> DEFINE A == S \cup {k}
    <2>1. ~NeverHolds(jobs[k].when)
      <3>1. UNION jobs[k].when \subseteq Literals(jobs)
        BY DEF Literals
      <3> QED
        BY <1>4, <3>1, HoldsIsPossible
    <2>2. Free(A)
      <3> SUFFICES ASSUME NEW a \in A, NEW s \in SUBSET D, s \cap A = {} PROVE ~w[s][a]
        BY Zenon
      <3> HIDE DEF S
      <3>1. CASE a \in S
        <4>1. s \cap S = {}
          OBVIOUS
        <4> QED
          BY <1>3, <3>1, <4>1, Zenon
      <3>2. CASE a = k
        <4>1. k \notin s /\ s \cup {k} \in SUBSET D /\ (s \cup {k}) \cap S = {}
          OBVIOUS
        <4>2. \A m \in jobs[k].needs : m \in D /\ ~w[s \cup {k}][m]
          BY <1>2, <1>3, <1>4, <4>1, Zenon
        <4> QED
          BY <1>1, <2>1, <3>2, <4>1, <4>2, Zenon
      <3> QED
        BY <3>1, <3>2
    <2>3. A \in SUBSET D
      BY <1>2
    <2>4. A \subseteq S
      <3> HIDE DEF A
      <3> QED
        BY <2>2, <2>3, Zenon
    <2> HIDE DEF S
    <2> QED
      BY <2>4
  <1>5. n \in S
    <2> HIDE DEF S
    <2> QED
      BY <1>2, <1>4, Zenon DEF Started
  <1>6. ~w[{}][n]
    <2>1. {} \in SUBSET D /\ {} \cap S = {}
      OBVIOUS
    <2> HIDE DEF S
    <2> QED
      BY <1>3, <1>5, <2>1, Zenon
  <1> HIDE DEF S
  <1> QED
    BY <1>1, <1>2, <1>5, <1>6, Zenon

\* The image workflow that the contract check accepts attests what it publishes.
LEMMA SignerAttests ==
  ASSUME NEW jobs, SignerReachable(jobs)
  PROVE  PublishedIsAttested(jobs)
  <1> SUFFICES ASSUME NEW v \in WorkflowRuns(jobs), NEW n \in Started(jobs, v),
                      NEW i \in DOMAIN jobs[n].steps, Holds(jobs[n].steps[i].when, v),
                      i \in Publications(jobs[n])
               PROVE  /\ jobs[n].steps[i].subjects # {}
                      /\ \A x \in jobs[n].steps[i].subjects :
                           \E k \in DOMAIN jobs[n].steps :
                             /\ Holds(jobs[n].steps[k].when, v) /\ k \in Attestations(jobs[n])
                             /\ i < k /\ x \in jobs[n].steps[k].subjects
    BY DEF PublishedIsAttested
  <1> DEFINE j == jobs[n]
  <1>1. n \in DOMAIN jobs /\ ~Blocked(jobs, n)
    BY StartedIsFree
  <1>2. /\ j.steps[i].subjects # {}
        /\ j.steps[i].subjects \subseteq SubjectsOf(j, {k \in Attestations(j) : Paired(j, i, k)})
    BY <1>1 DEF SignerReachable
  <1>3. ASSUME NEW x \in j.steps[i].subjects
        PROVE  \E k \in DOMAIN j.steps :
                 /\ Holds(j.steps[k].when, v) /\ k \in Attestations(j)
                 /\ i < k /\ x \in j.steps[k].subjects
    <2>1. PICK k \in Attestations(j) : Paired(j, i, k) /\ x \in j.steps[k].subjects
      BY <1>2, <1>3 DEF SubjectsOf
    <2>2. k \in DOMAIN j.steps /\ i < k /\ Covers(j.steps[k], j.steps[i])
      BY <2>1 DEF Paired, Attestations
    <2>3. \A l \in UNION j.steps[k].when : l \in {"true", "success", "always"} => v[l]
      <3>1. UNION j.steps[k].when \subseteq Literals(jobs)
        <4> SUFFICES ASSUME NEW all \in j.steps[k].when, NEW l \in all PROVE l \in Literals(jobs)
          OBVIOUS
        <4>1. j.steps[k] \in {j.steps[m] : m \in DOMAIN j.steps}
          BY <2>2, Zenon
        <4>2. l \in UNION j.steps[k].when
          BY Zenon
        <4>3. l \in UNION {UNION s.when : s \in {j.steps[m] : m \in DOMAIN j.steps}}
          BY <4>1, <4>2, Zenon
        <4> DEFINE In(m) == UNION {UNION s.when : s \in {jobs[m].steps[p] : p \in DOMAIN jobs[m].steps}}
        <4>4. Literals(jobs) = (UNION {UNION jobs[m].when : m \in DOMAIN jobs})
                                 \cup (UNION {In(m) : m \in DOMAIN jobs})
          BY Zenon DEF Literals
        <4>5. l \in In(n)
          BY <4>3, Zenon
        <4> HIDE DEF In
        <4>6. l \in UNION {In(m) : m \in DOMAIN jobs}
          BY <1>1, <4>5, Zenon
        <4> QED
          BY <4>4, <4>6, Zenon
      <3>2. \A l \in Literals(jobs) : l \in {"true", "success", "always"} => v[l]
        BY DEF WorkflowRuns
      <3> QED
        BY <3>1, <3>2
    <2>4. Holds(j.steps[k].when, v)
      <3>1. CASE j.steps[k].when \in Unconditional
        <4>1. PICK l \in {"true", "success", "always"} : j.steps[k].when = {{l}}
          BY <3>1 DEF Unconditional, Success
        <4>2. {l} \in j.steps[k].when /\ l \in UNION j.steps[k].when
          BY <4>1
        <4>3. v[l]
          BY <2>3, <4>2
        <4> QED
          BY <4>2, <4>3, Zenon DEF Holds
      <3>2. CASE j.steps[k].when = j.steps[i].when
        BY <3>2
      <3> QED
        BY <2>2, <3>1, <3>2 DEF Covers
    <2> QED
      BY <2>1, <2>2, <2>4
  <1> QED
    BY <1>2, <1>3

\* What Reachable finds lies in every set that holds its start and what its
\* members lead to.
LEMMA ReachableIsClosed ==
  ASSUME NEW next, IsFiniteSet(DOMAIN next), NEW S, NEW G, S \subseteq G,
         \A x \in G \cap DOMAIN next : next[x] \subseteq G
  PROVE  Reachable(S, next) \subseteq G
  <1> DEFINE D == DOMAIN next
             K == Cardinality(DOMAIN next)
             Reach[n \in 0 .. K] ==
               IF n = 0 THEN S
               ELSE Reach[n - 1] \cup UNION {next[x] : x \in Reach[n - 1] \cap DOMAIN next}
  <1>1. K \in Nat
    BY FS_CardinalityType
  <1>2. Reachable(S, next) = Reach[K]
    BY DEF Reachable
  <1>3. \E g : g = [n \in 0 .. K |->
               IF n = 0 THEN S
               ELSE g[n - 1] \cup UNION {next[x] : x \in g[n - 1] \cap D}]
    <2> HIDE DEF K, Reach
    <2> DEFINE More(B) == B \cup UNION {next[x] : x \in B \cap D}
               Solves(g, k) == g = [n \in 0 .. k |-> IF n = 0 THEN S ELSE More(g[n - 1])]
               T == {k \in Nat : \E g : Solves(g, k)}
    <2> HIDE DEF More
    <2>1. 0 \in T
      <3> DEFINE g == [n \in 0 .. 0 |-> S]
      <3>1. Solves(g, 0)
        OBVIOUS
      <3> HIDE DEF g, Solves
      <3> QED
        BY <3>1
    <2>2. ASSUME NEW k \in Nat, k \in T PROVE k + 1 \in T
      <3>1. PICK g : Solves(g, k)
        BY <2>2
      <3> DEFINE h == [n \in 0 .. k + 1 |-> IF n = k + 1 THEN More(g[k]) ELSE g[n]]
      <3>2. ASSUME NEW n \in 0 .. k + 1
            PROVE  h[n] = IF n = 0 THEN S ELSE More(h[n - 1])
        <4>1. CASE n = k + 1
          <5>1. h[n - 1] = g[k] /\ h[n] = More(g[k]) /\ n # 0
            BY <4>1
          <5> QED
            BY <5>1
        <4>2. CASE n # k + 1
          <5>1. n \in 0 .. k /\ h[n] = g[n] /\ (n # 0 => h[n - 1] = g[n - 1])
            BY <4>2
          <5>2. g[n] = IF n = 0 THEN S ELSE More(g[n - 1])
            BY <3>1, <5>1
          <5> QED
            BY <5>1, <5>2
        <4> QED
          BY <4>1, <4>2
      <3>3. h = [n \in 0 .. k + 1 |-> h[n]]
        OBVIOUS
      <3> HIDE DEF h
      <3>4. Solves(h, k + 1)
        BY <3>2, <3>3
      <3> QED
        BY <3>4 DEF T
    <2> HIDE DEF Solves
    <2>3. Nat \subseteq T
      <3> HIDE DEF T
      <3> QED
        BY <2>1, <2>2, Inductive
    <2>4. \E g : Solves(g, K)
      BY <1>1, <2>3
    <2> QED
      BY <2>4 DEF Solves, More
  <1>4. Reach = [n \in 0 .. K |->
               IF n = 0 THEN S
               ELSE Reach[n - 1] \cup UNION {next[x] : x \in Reach[n - 1] \cap D}]
    BY <1>3, Zenon
  <1> HIDE DEF K, Reach
  <1> DEFINE T == {k \in Nat : k \in 0 .. K => Reach[k] \subseteq G}
  <1>5. 0 \in T
    <2>1. 0 \in 0 .. K
      BY <1>1
    <2>2. Reach[0] = S
      BY <1>4, <2>1, Zenon
    <2> QED
      BY <2>2
  <1>6. ASSUME NEW k \in Nat, k \in T PROVE k + 1 \in T
    <2> SUFFICES ASSUME k + 1 \in 0 .. K PROVE Reach[k + 1] \subseteq G
      OBVIOUS
    <2>1. k \in 0 .. K /\ k + 1 # 0 /\ (k + 1) - 1 = k
      BY <1>1
    <2>2. Reach[k + 1] = Reach[(k + 1) - 1] \cup UNION {next[x] : x \in Reach[(k + 1) - 1] \cap D}
      BY <1>4, <2>1, Zenon
    <2>3. Reach[k] \subseteq G
      BY <1>6, <2>1
    <2>4. Reach[k + 1] = Reach[k] \cup UNION {next[x] : x \in Reach[k] \cap D}
      BY <2>1, <2>2, Zenon
    <2> QED
      BY <2>3, <2>4
  <1>7. Nat \subseteq T
    <2> HIDE DEF T
    <2> QED
      BY <1>5, <1>6, Inductive
  <1> QED
    BY <1>1, <1>2, <1>7

\* What the scan of ImportMutates says of a module imported by a file that calls
\* `e[2]`, by what it says of the modules below it
ImportRefused(t, scan, seen, e) ==
  /\ e[1] \notin seen
  /\ \/ PythonMutates(Body(t, e[1], e[2]))
     \/ \E y \in Imports(t, e[1]) : scan[seen \cup {e[1]}][<<y, Called(t, e[1], e[2])>>]

\* What a file calls is named in the repository.
LEMMA CalledIsNamed ==
  ASSUME NEW t, NEW x \in DOMAIN t.scripts, NEW names
  PROVE  Called(t, x, names) \subseteq Names(t)
  <1>1. Called(t, x, names) \subseteq CalledAnywhere(t, x)
    BY DEF Called, CalledAnywhere
  <1>2. CalledAnywhere(t, x) \in {CalledAnywhere(t, y) : y \in DOMAIN t.scripts}
    OBVIOUS
  <1> QED
    BY <1>1, <1>2 DEF Names

\* The scan of ImportMutates
LEMMA ImportScan ==
  ASSUME NEW t
  PROVE  \E w :
           /\ \A s \in SUBSET DOMAIN t.scripts : \A e \in (DOMAIN t.scripts) \X (SUBSET Names(t)) :
                w[s][e] <=> ImportRefused(t, w, s, e)
           /\ \A s, x, names : ImportMutates(t, x, s, names) <=> w[s][<<x, names>>]
  <1> DEFINE E == DOMAIN t.scripts
             D == (DOMAIN t.scripts) \X (SUBSET Names(t))
             M == Scans(E, D)
             F == [w \in M |-> [s \in SUBSET E |-> [e \in D |-> ImportRefused(t, w, s, e)]]]
             Scan[seen \in SUBSET DOMAIN t.scripts] ==
               [e \in (DOMAIN t.scripts) \X (SUBSET Names(t)) |-> ImportRefused(t, Scan, seen, e)]
  <1>1. F \in [M -> M]
    <2>1. \A w, s, e : ImportRefused(t, w, s, e) \in BOOLEAN
      BY DEF ImportRefused
    <2> QED
      BY <2>1, Zenon DEF Scans
  <1>2. ASSUME NEW g \in M, NEW h \in M, \A s \in SUBSET E : \A e \in D : g[s][e] => h[s][e]
        PROVE  \A s \in SUBSET E : \A e \in D : F[g][s][e] => F[h][s][e]
    <2> SUFFICES ASSUME NEW s \in SUBSET E, NEW e \in D, F[g][s][e] PROVE F[h][s][e]
      BY Zenon
    <2>1. e[1] \in E /\ s \cup {e[1]} \in SUBSET E
      OBVIOUS
    <2>2. \A y \in Imports(t, e[1]) : <<y, Called(t, e[1], e[2])>> \in D
      BY <2>1, CalledIsNamed DEF Imports
    <2>3. \A y \in Imports(t, e[1]) :
            g[s \cup {e[1]}][<<y, Called(t, e[1], e[2])>>]
              => h[s \cup {e[1]}][<<y, Called(t, e[1], e[2])>>]
      BY <1>2, <2>1, <2>2, Zenon
    <2>4. ImportRefused(t, g, s, e) => ImportRefused(t, h, s, e)
      BY <2>3, Zenon DEF ImportRefused
    <2> QED
      BY <2>4, Zenon
  <1>3. \E w : w = [s \in SUBSET E |-> [e \in D |-> ImportRefused(t, w, s, e)]]
    <2>1. PICK w \in M : w = F[w]
      <3> HIDE DEF F, D, E
      <3>1. Monotone(F, E, D)
        BY <1>2, Zenon DEF Monotone
      <3> QED
        BY <1>1, <3>1, GreatestSolution, Zenon
    <2>2. F[w] = [s \in SUBSET E |-> [e \in D |-> ImportRefused(t, w, s, e)]]
      BY Zenon
    <2> QED
      BY <2>1, <2>2, Zenon
  <1>4. Scan = [s \in SUBSET E |-> [e \in D |-> ImportRefused(t, Scan, s, e)]]
    BY <1>3, Zenon
  <1>5. \A s, x, names : ImportMutates(t, x, s, names) <=> Scan[s][<<x, names>>]
    BY Zenon DEF ImportMutates, ImportRefused
  <1> HIDE DEF Scan
  <1>6. \A s \in SUBSET E : \A e \in D : Scan[s][e] <=> ImportRefused(t, Scan, s, e)
    <2>1. \A s \in SUBSET E : Scan[s] = [e \in D |-> ImportRefused(t, Scan, s, e)]
      BY <1>4, Zenon
    <2> HIDE DEF D
    <2> QED
      BY <2>1, Zenon
  <1> QED
    BY <1>5, <1>6, Zenon

\* A Python script whose imports the scan accepts lies in a set of modules that
\* holds their imports and does nothing when imported; nor does anything that it
\* calls by name in a module it imports.  A module on the path is accepted unread:
\* it is one of the set, because Python modules are entered below this script only.
\* But it may have been read for other names than the ones now called.
LEMMA ImportsAreHarmless ==
  ASSUME NEW t, NEW x \in DOMAIN t.scripts, NEW s \in SUBSET DOMAIN t.scripts,
         \A y \in DOMAIN t.scripts : t.scripts[y].kind = "py" =>
           \A z \in Imports(t, y) : t.scripts[z].kind = "py",
         t.scripts[x].kind = "py", \A y \in s : t.scripts[y].kind # "py",
         ~PythonMutates(t.scripts[x].does), t.scripts[x].loads \subseteq t.scripts[x].does,
         \A g \in DOMAIN t.scripts[x].defs : t.scripts[x].defs[g].does \subseteq t.scripts[x].does,
         \A y \in Imports(t, x) : ~ImportMutates(t, y, s \cup {x}, CalledAnywhere(t, x))
  PROVE  /\ \E G \in SUBSET DOMAIN t.scripts :
              /\ x \in G
              /\ \A y \in G : /\ ~PythonMutates(t.scripts[y].loads) /\ t.scripts[y].kind = "py"
                              /\ Imports(t, y) \subseteq G
         /\ \A y \in Imports(t, x) : ~PythonMutates(Body(t, y, CalledAnywhere(t, x)))
  <1> DEFINE D == DOMAIN t.scripts
             N == SUBSET Names(t)
             Py == {y \in D : t.scripts[y].kind = "py"}
  <1>1. PICK w :
           /\ \A p \in SUBSET D : \A e \in D \X N : w[p][e] <=> ImportRefused(t, w, p, e)
           /\ \A p, y, names : ImportMutates(t, y, p, names) <=> w[p][<<y, names>>]
    BY ImportScan, Zenon
  <1>2. ASSUME NEW y \in D, NEW names \in N, NEW p \in SUBSET D, y \notin p, ~w[p][<<y, names>>]
        PROVE  /\ ~PythonMutates(Body(t, y, names)) /\ ~PythonMutates(t.scripts[y].loads)
               /\ \A z \in Imports(t, y) : ~w[p \cup {y}][<<z, Called(t, y, names)>>]
    <2>1. ~ImportRefused(t, w, p, <<y, names>>)
      <3>1. <<y, names>> \in D \X N
        OBVIOUS
      <3> HIDE DEF D, N
      <3> QED
        BY <1>1, <1>2, <3>1, Zenon
    <2>2. <<y, names>>[1] = y /\ <<y, names>>[2] = names
      OBVIOUS
    <2>3. /\ ~PythonMutates(Body(t, y, names))
          /\ \A z \in Imports(t, y) : ~w[p \cup {y}][<<z, Called(t, y, names)>>]
      BY <1>2, <2>1, <2>2, Zenon DEF ImportRefused
    <2>4. ~PythonMutates(t.scripts[y].loads)
      BY <2>3 DEF PythonMutates, Body
    <2> QED
      BY <2>3, <2>4
  <1>3. \A y \in D : \A names \in N : Called(t, y, names) \in N
    BY CalledIsNamed
  <1>4. CalledAnywhere(t, x) \in N
    BY CalledIsNamed DEF CalledAnywhere
  <1> DEFINE Accepted(A, y) == \E p \in SUBSET D : \E names \in N :
                                 /\ y \notin p /\ ~w[p][<<y, names>>]
                                 /\ \A z \in p : z \in A \/ z \notin Py
             Closed(A) == /\ A \subseteq Py /\ x \in A
                          /\ \A y \in A : y = x \/ Accepted(A, y)
             G == UNION {A \in SUBSET D : Closed(A)}
  <1>5. \A A, B, y : A \subseteq B /\ Accepted(A, y) => Accepted(B, y)
    <2> HIDE DEF Py, N, D
    <2> QED
      OBVIOUS
  <1>6. Closed({x})
    OBVIOUS
  <1> HIDE DEF Accepted, N
  <1>7. ASSUME NEW A \in SUBSET D, Closed(A), NEW z \in Py, Accepted(A, z)
        PROVE  z \in G
    <2>1. Closed(A \cup {z})
      BY <1>5, <1>7
    <2> QED
      BY <1>7, <2>1
  <1>8. x \in G /\ G \in SUBSET D
    BY <1>6
  <1>9. ~PythonMutates(t.scripts[x].loads)
    BY DEF PythonMutates
  <1>10. \A z \in Imports(t, x) : z \in D /\ z \in Py /\ ~w[s \cup {x}][<<z, CalledAnywhere(t, x)>>]
    <2>1. \A z \in Imports(t, x) : ~w[s \cup {x}][<<z, CalledAnywhere(t, x)>>]
      BY <1>1, Zenon
    <2> QED
      BY <2>1 DEF Imports
  <1>11. ASSUME NEW y \in G
         PROVE  /\ ~PythonMutates(t.scripts[y].loads) /\ t.scripts[y].kind = "py"
                /\ Imports(t, y) \subseteq G
    <2>1. PICK A \in SUBSET D : y \in A /\ Closed(A)
      OBVIOUS
    <2>2. A \subseteq G /\ y \in Py /\ y \in D /\ x \in A
      BY <2>1
    <2>3. CASE y = x
      <3>1. ASSUME NEW z \in Imports(t, x) PROVE z \in G
        <4>1. z \in D /\ z \in Py /\ s \cup {x} \in SUBSET D /\ ~w[s \cup {x}][<<z, CalledAnywhere(t, x)>>]
          BY <1>10
        <4>2. CASE z \in s \cup {x}
          BY <1>8, <4>1, <4>2
        <4>3. CASE z \notin s \cup {x}
          <5>1. \A v \in s \cup {x} : v \in {x} \/ v \notin Py
            OBVIOUS
          <5>2. Accepted({x}, z)
            <6> HIDE DEF Py
            <6> QED
              BY <1>4, <4>1, <4>3, <5>1, Zenon DEF Accepted
          <5> QED
            BY <1>6, <1>7, <4>1, <5>2
        <4> QED
          BY <4>2, <4>3
      <3> QED
        BY <1>9, <2>2, <2>3, <3>1
    <2>4. CASE y # x
      <3>1. PICK p \in SUBSET D, names \in N :
              /\ y \notin p /\ ~w[p][<<y, names>>]
              /\ \A z \in p : z \in A \/ z \notin Py
        BY <2>1, <2>4 DEF Accepted
      <3>2. /\ ~PythonMutates(t.scripts[y].loads)
            /\ \A z \in Imports(t, y) : ~w[p \cup {y}][<<z, Called(t, y, names)>>]
        BY <1>2, <2>2, <3>1
      <3>3. Called(t, y, names) \in N
        BY <1>3, <2>2
      <3>4. ASSUME NEW z \in Imports(t, y) PROVE z \in G
        <4>1. z \in D /\ z \in Py /\ p \cup {y} \in SUBSET D
          BY <2>2, <3>1 DEF Imports
        <4>2. CASE z \in p \cup {y}
          BY <2>1, <2>2, <3>1, <4>1, <4>2
        <4>3. CASE z \notin p \cup {y}
          <5>1. \A v \in p \cup {y} : v \in A \/ v \notin Py
            BY <2>1, <3>1
          <5>2. Accepted(A, z)
            <6> HIDE DEF Py
            <6> QED
              BY <3>2, <3>3, <4>1, <4>3, <5>1, Zenon DEF Accepted
          <5> QED
            BY <1>7, <2>1, <4>1, <5>2
        <4> QED
          BY <4>2, <4>3
      <3> QED
        BY <2>2, <3>2, <3>4
    <2> QED
      BY <2>3, <2>4
  <1>12. ASSUME NEW y \in Imports(t, x) PROVE ~PythonMutates(Body(t, y, CalledAnywhere(t, x)))
    <2>1. CASE y = x
      <3>1. Body(t, x, CalledAnywhere(t, x)) \subseteq t.scripts[x].does
        BY DEF Body
      <3> QED
        BY <2>1, <3>1 DEF PythonMutates
    <2>2. CASE y # x
      <3>1. y \in D /\ y \notin s \cup {x} /\ s \cup {x} \in SUBSET D
        BY <1>10, <2>2
      <3> QED
        BY <1>2, <1>4, <1>10, <3>1
    <2> QED
      BY <2>1, <2>2
  <1> HIDE DEF G
  <1> QED
    BY <1>8, <1>11, <1>12

\* What the scan of ScriptMutates says of a script, by what it says of those below it
ScriptRefused(t, scan, seen, x) ==
  LET f    == t.scripts[x]
      path == seen \cup {x}
  IN  \/ x \in seen
      \/ f.kind \notin {"sh", "py", "js", "pkg", "tests"}
      \/ f.pin = "drifted"
      \/ f.pin # "held" /\ Calls(t, x) \ DOMAIN t.scripts # {}
      \/ f.pin = "scanned" /\ \E y \in Calls(t, x) : scan[{}][y]
      \/ f.pin = "none" /\
           \/ f.kind = "sh" /\ (ShellMutates(f.does) \/ \E y \in Calls(t, x) : scan[path][y])
           \/ /\ f.kind = "py"
              /\ \/ PythonMutates(f.does)
                 \/ \E y \in Imports(t, x) : ImportMutates(t, y, path, CalledAnywhere(t, x))
           \/ /\ f.kind = "js"
              /\ \/ JavaScriptMutates(f.does)
                 \/ \E y \in JavaScriptImports(t, x, path) : scan[path][y]
           \/ f.kind = "pkg" /\ \E y \in Calls(t, x) : scan[path][y]
           \/ f.kind = "tests" /\ ~DiscoveryApproved(t, x) /\ \E y \in Calls(t, x) : scan[path][y]

\* The scan of ScriptMutates
LEMMA ScriptScan ==
  ASSUME NEW t
  PROVE  \E w :
           /\ \A s \in SUBSET DOMAIN t.scripts : \A x \in DOMAIN t.scripts :
                w[s][x] <=> ScriptRefused(t, w, s, x)
           /\ \A x : ScriptMutates(t, x) <=> x \notin DOMAIN t.scripts \/ w[{}][x]
  <1> DEFINE D == DOMAIN t.scripts
             M == Scans(D, D)
             F == [w \in M |-> [s \in SUBSET D |-> [x \in D |-> ScriptRefused(t, w, s, x)]]]
             Scan[seen \in SUBSET DOMAIN t.scripts] ==
               [x \in DOMAIN t.scripts |-> ScriptRefused(t, Scan, seen, x)]
  <1>1. F \in [M -> M]
    <2>1. \A w, s, x : ScriptRefused(t, w, s, x) \in BOOLEAN
      BY DEF ScriptRefused
    <2> QED
      BY <2>1, Zenon DEF Scans
  <1>2. ASSUME NEW g \in M, NEW h \in M, \A s \in SUBSET D : \A x \in D : g[s][x] => h[s][x]
        PROVE  \A s \in SUBSET D : \A x \in D : F[g][s][x] => F[h][s][x]
    <2> SUFFICES ASSUME NEW s \in SUBSET D, NEW x \in D, F[g][s][x] PROVE F[h][s][x]
      BY Zenon
    <2> DEFINE p == s \cup {x}
    <2>1. p \in SUBSET D /\ {} \in SUBSET D
      OBVIOUS
    <2>2. ASSUME ScriptRefused(t, g, s, x) PROVE ScriptRefused(t, h, s, x)
      <3>1. CASE t.scripts[x].pin # "held" /\ Calls(t, x) \ D # {}
        BY <3>1, Zenon DEF ScriptRefused
      <3>2. CASE t.scripts[x].pin # "held" /\ Calls(t, x) \subseteq D
        <4>1. \A y \in Calls(t, x) : (g[{}][y] => h[{}][y]) /\ (g[p][y] => h[p][y])
          BY <1>2, <2>1, <3>2, Zenon
        <4>2. t.scripts[x].kind = "js" => t.scripts[x].uses = Calls(t, x)
          BY DEF Calls
        <4>3. t.scripts[x].kind = "js" => \A y \in JavaScriptImports(t, x, p) : g[p][y] => h[p][y]
          BY <4>1, <4>2, Zenon DEF JavaScriptImports
        <4> QED
          BY <2>2, <4>1, <4>3, Zenon DEF ScriptRefused
      <3>3. CASE t.scripts[x].pin = "held"
        BY <2>2, <3>3, Zenon DEF ScriptRefused
      <3> QED
        BY <3>1, <3>2, <3>3
    <2> QED
      BY <2>2, Zenon
  <1>3. \E w : w = [s \in SUBSET D |-> [x \in D |-> ScriptRefused(t, w, s, x)]]
    <2>1. PICK w \in M : w = F[w]
      <3> HIDE DEF F, D
      <3>1. Monotone(F, D, D)
        BY <1>2, Zenon DEF Monotone
      <3> QED
        BY <1>1, <3>1, GreatestSolution, Zenon
    <2>2. F[w] = [s \in SUBSET D |-> [x \in D |-> ScriptRefused(t, w, s, x)]]
      BY Zenon
    <2> QED
      BY <2>1, <2>2, Zenon
  <1>4. Scan = [s \in SUBSET D |-> [x \in D |-> ScriptRefused(t, Scan, s, x)]]
    BY <1>3, Zenon
  <1>5. \A x : ScriptMutates(t, x) <=> x \notin D \/ Scan[{}][x]
    BY Zenon DEF ScriptMutates, ScriptRefused
  <1> HIDE DEF Scan
  <1>6. \A s \in SUBSET D : \A x \in D : Scan[s][x] <=> ScriptRefused(t, Scan, s, x)
    <2>1. \A s \in SUBSET D : Scan[s] = [x \in D |-> ScriptRefused(t, Scan, s, x)]
      BY <1>4, Zenon
    <2> QED
      BY <2>1, Zenon
  <1> QED
    BY <1>5, <1>6, Zenon

\* The scripts that the scan accepts, each below a path of accepted ones that
\* holds no Python: what they run is accepted too, or is default discovery over
\* the approved sources.
LEMMA ScriptsAreHarmless ==
  ASSUME NEW n \in DOMAIN Trees, NEW S, \A x \in S : ~ScriptMutates(Trees[n], x)
  PROVE  LET t == Trees[n]
             run1 == Executed(t, S)
             imp == Imported(t, run1)
         IN  /\ run1 \cup imp \subseteq DOMAIN t.scripts
             /\ \A x \in run1 : Reviewed(t, x) \/ Harmless(t.scripts[x].does)
             /\ \A x \in imp : t.tracked \/ Harmless(t.scripts[x].loads)
             /\ \A x \in Programs(t, run1) :
                  \A y \in Imports(t, x) : Harmless(Body(t, y, CalledAnywhere(t, x)))
  <1> DEFINE t == Trees[n]
             D == DOMAIN t.scripts
             NotPy == {x \in D : t.scripts[x].kind # "py"}
  <1>a. /\ IsFiniteSet(D) /\ NULL \notin D
        /\ \A x \in t.testpaths \cap D : t.scripts[x].kind = "py"
        /\ \A x \in D :
             LET f == t.scripts[x] IN
             /\ f.pin \in {"none", "held", "scanned", "drifted"}
             /\ f.kind = "sh" => f.does \subseteq {"read", "tool", "client", "computed"}
             /\ f.kind \in {"py", "js"} => f.does \subseteq {"read", "process", "request", "computed"}
             /\ f.kind \in {"pkg", "tests"} => f.does = {}
             /\ f.kind = "py" =>
                  /\ f.loads \subseteq f.does
                  /\ \A g \in DOMAIN f.defs : f.defs[g].does \subseteq f.does
                  /\ \A y \in f.uses \cap D : t.scripts[y].kind = "py"
    BY ScriptAssumption, Zenon
  <1> HIDE DEF t
  <1>1. PICK w :
           /\ \A s \in SUBSET D : \A x \in D : w[s][x] <=> ScriptRefused(t, w, s, x)
           /\ \A x : ScriptMutates(t, x) <=> x \notin D \/ w[{}][x]
    BY ScriptScan, Zenon
  <1> DEFINE Accepted(A, x) == \E p \in SUBSET D : p \subseteq A /\ p \subseteq NotPy /\ ~w[p][x]
             Closed(A) == \A x \in A : Accepted(A, x)
             G == UNION {A \in SUBSET D : Closed(A)}
             H == G \cup {x \in t.testpaths \cap D : t.tracked}
  <1>2. \A A, B, x : A \subseteq B /\ Accepted(A, x) => Accepted(B, x)
    OBVIOUS
  <1>3. {} \in SUBSET D /\ Closed({}) /\ G \in SUBSET D /\ H \in SUBSET D
    OBVIOUS
  <1>4. ASSUME NEW A \in SUBSET D, Closed(A), NEW z \in D, Accepted(A, z)
        PROVE  z \in G
    <2> HIDE DEF Accepted
    <2>1. Closed(A \cup {z})
      BY <1>2, <1>4
    <2> QED
      BY <1>4, <2>1
  <1>5. ASSUME NEW x \in D, ~w[{}][x] PROVE x \in G
    <2>1. Accepted({}, x)
      BY <1>3, <1>5
    <2> HIDE DEF Accepted, G
    <2> QED
      BY <1>3, <1>4, <2>1
  <1>6. \A x \in G : \E A \in SUBSET D : Closed(A) /\ A \subseteq G /\ x \in A
    <2> HIDE DEF Closed
    <2> QED
      OBVIOUS
  <1> HIDE DEF G
  <1>7. S \subseteq G
    <2> SUFFICES ASSUME NEW x \in S PROVE x \in G
      OBVIOUS
    <2>1. ~ScriptMutates(t, x)
      BY DEF t
    <2>2. x \in D /\ ~w[{}][x]
      BY <1>1, <2>1, Zenon
    <2> QED
      BY <1>5, <2>2
  \* What an accepted script is
  <1>8. ASSUME NEW x \in G
        PROVE  \E A \in SUBSET D, p \in SUBSET D :
                 /\ Closed(A) /\ A \subseteq G /\ x \in A
                 /\ p \subseteq A /\ p \subseteq NotPy /\ ~ScriptRefused(t, w, p, x)
    <2>1. PICK A \in SUBSET D : Closed(A) /\ A \subseteq G /\ x \in A
      BY <1>6
    <2>2. PICK p \in SUBSET D : p \subseteq A /\ p \subseteq NotPy /\ ~w[p][x]
      BY <2>1, Zenon
    <2>3. ~ScriptRefused(t, w, p, x)
      <3>1. x \in D
        BY <2>1
      <3> QED
        BY <1>1, <2>2, <3>1, Zenon
    <2> QED
      BY <2>1, <2>2, <2>3, Zenon
  <1> HIDE DEF Closed
  <1>9. ASSUME NEW x \in G
        PROVE  /\ Reviewed(t, x) \/ Harmless(t.scripts[x].does)
               /\ t.scripts[x].pin # "held" /\ t.scripts[x].kind # "py" => Calls(t, x) \subseteq H
    <2> DEFINE f == t.scripts[x]
    <2>1. PICK A \in SUBSET D, p \in SUBSET D :
            /\ Closed(A) /\ A \subseteq G /\ x \in A
            /\ p \subseteq A /\ p \subseteq NotPy /\ ~ScriptRefused(t, w, p, x)
      BY <1>8
    <2>2. x \in D
      BY <2>1
    <2>3. /\ f.kind \in {"sh", "py", "js", "pkg", "tests"} /\ f.pin # "drifted"
          /\ f.pin # "held" => Calls(t, x) \subseteq D
      BY <2>1, Zenon DEF ScriptRefused
    <2>4. f.pin = "scanned" => \A y \in Calls(t, x) : ~w[{}][y]
      BY <2>1, Zenon DEF ScriptRefused
    <2>5. f.pin = "none" =>
            /\ f.kind = "sh" => ~ShellMutates(f.does) /\ \A y \in Calls(t, x) : ~w[p \cup {x}][y]
            /\ f.kind = "py" => ~PythonMutates(f.does)
            /\ f.kind = "js" => /\ ~JavaScriptMutates(f.does)
                               /\ \A y \in JavaScriptImports(t, x, p \cup {x}) : ~w[p \cup {x}][y]
            /\ f.kind = "pkg" => \A y \in Calls(t, x) : ~w[p \cup {x}][y]
            /\ f.kind = "tests" /\ ~DiscoveryApproved(t, x) =>
                 \A y \in Calls(t, x) : ~w[p \cup {x}][y]
      BY <2>1, Zenon DEF ScriptRefused
    <2>6. Reviewed(t, x) \/ Harmless(f.does)
      BY <1>a, <2>2, <2>3, <2>5
         DEF Reviewed, Harmless, ShellMutates, PythonMutates, JavaScriptMutates, ToolCommands,
             ClientCommands, ComputedCommands
    <2>7. ASSUME f.pin # "held", f.kind # "py", NEW y \in Calls(t, x) PROVE y \in H
      <3>1. y \in D
        BY <2>3, <2>7
      <3>2. CASE f.pin = "scanned"
        BY <1>5, <2>4, <2>7, <3>1, <3>2
      <3>3. CASE f.pin = "none"
        <4>1. ASSUME ~w[p \cup {x}][y] PROVE y \in H
          <5>1. p \cup {x} \in SUBSET D /\ p \cup {x} \subseteq A /\ p \cup {x} \subseteq NotPy
            BY <2>1, <2>2, <2>7
          <5>2. Accepted(A, y)
            <6> HIDE DEF NotPy, D
            <6> QED
              BY <4>1, <5>1, Zenon
          <5> HIDE DEF Accepted
          <5> QED
            BY <1>4, <2>1, <3>1, <5>2
        <4>2. CASE f.kind = "sh"
          BY <2>5, <2>7, <3>3, <4>1, <4>2
        <4>3. CASE f.kind = "js"
          <5>1. y \in f.uses
            BY <2>7, <4>3 DEF Calls
          <5>2. CASE y \in p \cup {x}
            BY <2>1, <5>2
          <5>3. CASE y \notin p \cup {x}
            <6>1. y \in JavaScriptImports(t, x, p \cup {x})
              BY <5>1, <5>3 DEF JavaScriptImports
            <6> QED
              BY <2>5, <3>3, <4>1, <4>3, <6>1
          <5> QED
            BY <5>2, <5>3
        <4>4. CASE f.kind = "pkg"
          BY <2>5, <2>7, <3>3, <4>1, <4>4
        <4>5. CASE f.kind = "tests"
          <5>1. CASE ~DiscoveryApproved(t, x)
            BY <2>5, <2>7, <3>3, <4>1, <4>5, <5>1
          <5>2. CASE DiscoveryApproved(t, x)
            <6>1. t.tracked /\ Calls(t, x) = TestTargets(t, {})
              BY <4>5, <5>2 DEF DiscoveryApproved, Calls
            <6>2. y \in t.testpaths
              BY <1>a, <2>7, <3>1, <6>1 DEF TestTargets
            <6> QED
              BY <3>1, <6>1, <6>2
          <5> QED
            BY <5>1, <5>2
        <4> QED
          BY <2>3, <2>7, <4>2, <4>3, <4>4, <4>5
      <3> QED
        BY <1>a, <2>2, <2>3, <2>7, <3>2, <3>3
    <2> QED
      BY <2>6, <2>7
  <1>10. ASSUME NEW x \in H
         PROVE  /\ Reviewed(t, x) \/ Harmless(t.scripts[x].does)
                /\ t.scripts[x].pin # "held" /\ t.scripts[x].kind # "py" => Calls(t, x) \subseteq H
    <2>1. CASE x \in G
      <3> HIDE DEF H
      <3> QED
        BY <1>9, <2>1
    <2>2. CASE x \notin G
      <3>1. t.tracked /\ t.scripts[x].kind = "py"
        BY <1>a, <2>2
      <3> QED
        BY <3>1 DEF Reviewed
    <2> QED
      BY <2>1, <2>2
  <1>11. Executed(t, S) \subseteq H
    <2> DEFINE next == [x \in D |->
          IF t.scripts[x].pin = "held" \/ t.scripts[x].kind = "py" THEN {} ELSE Calls(t, x)]
    <2>1. Executed(t, S) = Reachable(S, next)
      BY Zenon DEF Executed
    <2>2. \A x \in H \cap D : next[x] \subseteq H
      <3> HIDE DEF H
      <3> QED
        BY <1>10
    <2>3. S \subseteq H
      BY <1>7
    <2>4. DOMAIN next = D
      OBVIOUS
    <2> HIDE DEF next, H, D
    <2> QED
      BY <1>a, <2>1, <2>2, <2>3, <2>4, ReachableIsClosed
  <1> DEFINE Run == Executed(t, S)
             Quiet(B) == \A y \in B : /\ ~PythonMutates(t.scripts[y].loads) /\ t.scripts[y].kind = "py"
                                      /\ Imports(t, y) \subseteq B
             I == UNION {B \in SUBSET D : Quiet(B)}
             next == [x \in D |-> Imports(t, x)]
  <1>12. ASSUME NEW x \in Programs(t, Run)
         PROVE  /\ Imports(t, x) \subseteq I
                /\ \A y \in Imports(t, x) : ~PythonMutates(Body(t, y, CalledAnywhere(t, x)))
    <2> DEFINE f == t.scripts[x]
    <2>1. /\ x \in D /\ x \in H /\ f.kind = "py" /\ ~t.tracked /\ f.pin \notin {"held", "scanned"}
      BY <1>11 DEF Programs, Reviewed
    <2>2. x \in G
      BY <2>1
    <2>3. PICK A \in SUBSET D, p \in SUBSET D :
            /\ Closed(A) /\ A \subseteq G /\ x \in A
            /\ p \subseteq A /\ p \subseteq NotPy /\ ~ScriptRefused(t, w, p, x)
      BY <1>8, <2>2
    <2>4. f.pin # "drifted"
      BY <2>3, Zenon DEF ScriptRefused
    <2>5. f.pin = "none"
      BY <1>a, <2>1, <2>4
    <2>6. /\ ~PythonMutates(f.does)
          /\ \A y \in Imports(t, x) : ~ImportMutates(t, y, p \cup {x}, CalledAnywhere(t, x))
      BY <2>1, <2>3, <2>5, Zenon DEF ScriptRefused
    <2>7. \A y \in p : t.scripts[y].kind # "py"
      BY <2>3
    <2>8. \A y \in D : t.scripts[y].kind = "py" =>
            \A z \in Imports(t, y) : t.scripts[z].kind = "py"
      BY <1>a DEF Imports
    <2>9. f.loads \subseteq f.does /\ \A g \in DOMAIN f.defs : f.defs[g].does \subseteq f.does
      BY <1>a, <2>1
    <2>10. /\ \E B \in SUBSET D : x \in B /\ Quiet(B)
           /\ \A y \in Imports(t, x) : ~PythonMutates(Body(t, y, CalledAnywhere(t, x)))
      <3> HIDE DEF I, H
      <3> QED
        BY <2>1, <2>3, <2>6, <2>7, <2>8, <2>9, ImportsAreHarmless
    <2> QED
      BY <2>10
  <1>13. I \in SUBSET D /\ \A y \in I : /\ ~PythonMutates(t.scripts[y].loads)
                                      /\ t.scripts[y].kind = "py" /\ Imports(t, y) \subseteq I
    OBVIOUS
  <1>14. Imported(t, Run) \subseteq I
    <2>1. Imported(t, Run) = Reachable(UNION {Imports(t, x) : x \in Programs(t, Run)}, next)
      BY Zenon DEF Imported
    <2>2. UNION {Imports(t, x) : x \in Programs(t, Run)} \subseteq I
      <3> HIDE DEF I
      <3> QED
        BY <1>12
    <2>3. \A x \in I \cap D : next[x] \subseteq I
      <3> HIDE DEF I
      <3> QED
        BY <1>13
    <2>4. DOMAIN next = D
      OBVIOUS
    <2> HIDE DEF next, I, D
    <2> QED
      BY <1>a, <2>1, <2>2, <2>3, <2>4, ReachableIsClosed
  <1>15. ASSUME NEW does, NEW y \in D, t.scripts[y].kind = "py", ~PythonMutates(does),
                does \subseteq t.scripts[y].does
         PROVE  Harmless(does)
    BY <1>a, <1>15 DEF Harmless, PythonMutates
  <1>16. \A x \in I : Harmless(t.scripts[x].loads)
    <2> HIDE DEF I
    <2> QED
      BY <1>a, <1>13, <1>15
  <1>17. ASSUME NEW x \in Programs(t, Run), NEW y \in Imports(t, x)
         PROVE  Harmless(Body(t, y, CalledAnywhere(t, x)))
    <2>1. y \in D /\ t.scripts[y].kind = "py"
      BY <1>a DEF Programs, Imports
    <2>2. Body(t, y, CalledAnywhere(t, x)) \subseteq t.scripts[y].does
      BY <1>a, <2>1 DEF Body
    <2> HIDE DEF I
    <2> QED
      BY <1>12, <1>15, <2>1, <2>2
  <1> HIDE DEF I, H
  <1>18. /\ Run \cup Imported(t, Run) \subseteq D
         /\ \A x \in Run : Reviewed(t, x) \/ Harmless(t.scripts[x].does)
         /\ \A x \in Imported(t, Run) : t.tracked \/ Harmless(t.scripts[x].loads)
    BY <1>3, <1>10, <1>11, <1>13, <1>14, <1>16
  <1> QED
    BY <1>17, <1>18 DEF t

\* The scan of WorkflowMutates, one level down
LEMMA WorkflowScan ==
  ASSUME NEW t, NEW v \in DOMAIN t.workflows, ~WorkflowMutates(t, v, {})
  PROVE  \A j \in t.workflows[v].jobs :
           ~JobMutates(t, v, j) /\ (j.calls = NULL \/ j.calls \in DOMAIN t.workflows)
  <1> DEFINE D == DOMAIN t.workflows
             M == Scans(D, D)
             Refused(w, s, x) ==
               \/ t.workflows[x].pin = "drifted"
               \/ \E j \in t.workflows[x].jobs :
                    \/ JobMutates(t, x, j)
                    \/ /\ j.calls # NULL
                       /\ \/ j.calls \notin D
                          \/ j.calls \in s
                          \/ w[s \cup {j.calls}][j.calls]
             F == [w \in M |-> [s \in SUBSET D |-> [x \in D |-> Refused(w, s, x)]]]
             Scan[seen \in SUBSET DOMAIN t.workflows] ==
               [x \in DOMAIN t.workflows |->
                  \/ t.workflows[x].pin = "drifted"
                  \/ \E j \in t.workflows[x].jobs :
                       \/ JobMutates(t, x, j)
                       \/ /\ j.calls # NULL
                          /\ \/ j.calls \notin DOMAIN t.workflows
                             \/ j.calls \in seen
                             \/ Scan[seen \cup {j.calls}][j.calls]]
  <1>1. F \in [M -> M]
    <2>1. \A w, s, x : Refused(w, s, x) \in BOOLEAN
      OBVIOUS
    <2> HIDE DEF Refused
    <2> QED
      BY <2>1, Zenon DEF Scans
  <1>2. ASSUME NEW g \in M, NEW h \in M, \A s \in SUBSET D : \A x \in D : g[s][x] => h[s][x]
        PROVE  \A s \in SUBSET D : \A x \in D : F[g][s][x] => F[h][s][x]
    <2> SUFFICES ASSUME NEW s \in SUBSET D, NEW x \in D, F[g][s][x] PROVE F[h][s][x]
      BY Zenon
    <2>1. \A c \in D : s \cup {c} \in SUBSET D
      OBVIOUS
    <2>2. \A c \in D : g[s \cup {c}][c] => h[s \cup {c}][c]
      BY <1>2, <2>1, Zenon
    <2>3. Refused(g, s, x) => Refused(h, s, x)
      BY <2>2, Zenon
    <2> HIDE DEF Refused
    <2> QED
      BY <2>3, Zenon
  <1>3. \E w : w = [s \in SUBSET D |-> [x \in D |-> Refused(w, s, x)]]
    <2>1. PICK w \in M : w = F[w]
      <3> HIDE DEF F, D
      <3>1. Monotone(F, D, D)
        BY <1>2, Zenon DEF Monotone
      <3> QED
        BY <1>1, <3>1, GreatestSolution, Zenon
    <2>2. F[w] = [s \in SUBSET D |-> [x \in D |-> Refused(w, s, x)]]
      <3> HIDE DEF Refused
      <3> QED
        BY Zenon
    <2> QED
      BY <2>1, <2>2, Zenon
  <1>4. Scan = [s \in SUBSET D |-> [x \in D |-> Refused(Scan, s, x)]]
    BY <1>3, Zenon
  <1>5. ~Scan[{}][v]
    BY DEF WorkflowMutates
  <1> HIDE DEF Scan
  <1>6. ~Refused(Scan, {}, v)
    <2> HIDE DEF Refused
    <2>1. {} \in SUBSET D
      OBVIOUS
    <2>2. Scan[{}] = [x \in D |-> Refused(Scan, {}, x)]
      BY <1>4, <2>1, Zenon
    <2> QED
      BY <1>5, <2>2, Zenon
  <1> QED
    BY <1>6, Zenon

\* What the contract check accepts is inert as far as Inert looks: its scans refuse
\* every script an enabled job runs, every import-time effect however deep and every
\* function a script calls by name in a module it imports itself that does more than
\* read, for every commit, whatever cycles of scripts, imports, workflows and jobs
\* it holds.  Of the functions those functions call elsewhere it claims nothing:
\* the scan reads a module once, for the names called when it gets there.
THEOREM ValidIsInert ==
  ASSUME NEW n \in DOMAIN Trees, ValidTree(Trees[n])
  PROVE  Inert(Trees[n]) /\ IntentInert(Trees[n]) /\ PublishedIsAttested(Trees[n].signer)
  <1> DEFINE t == Trees[n]
  <1>1. PublishedIsAttested(t.signer)
    BY SignerAttests DEF ValidTree
  <1>2. IntentInert(t)
    <2>1. \A s \in t.intent.steps :
            s.install \/ (s.shell = "sh" /\ Harmless(s.does) /\ s.runs \subseteq {"validator"})
      BY DEF ValidTree, IntentValid, StepContacts, RuntimeCommand, ScriptContacts, Harmless
    <2>2. ASSUME NEW o \in t.validator.ops
          PROVE  \/ Callee(t.validator, o) = "local"
                 \/ /\ Callee(t.validator, o) \in {"subprocess", "Request"}
                    /\ o.form = "call" /\ o.arg = "evidence"
      <3>1. OperationsValid(t.validator)
        BY DEF ValidTree, ValidatorValid
      <3>2. \/ o.form = "value" /\ Callee(t.validator, o) \in Restricted \cup {"local"}
            \/ /\ o.form = "call"
               /\ Callee(t.validator, o) \in Restricted \cup {"local", "dynamic", "environ", "rebind"}
        BY StepAssumption
      <3> HIDE DEF t
      <3> QED
        BY <3>1, <3>2
           DEF OperationsValid, NoneEscapes, EvidenceCommands, EvidenceRequests, NothingDynamic,
               Restricted
    <2> HIDE DEF t
    <2> QED
      BY <2>1, <2>2 DEF IntentInert
  <1>3. ASSUME NEW w \in DOMAIN t.workflows, NEW j \in t.workflows[w].jobs, ~j.off
        PROVE  JobInert(t, w, j)
    <2>1. ~JobMutates(t, w, j) /\ (j.calls = NULL \/ j.calls \in DOMAIN t.workflows)
      <3>1. CASE WorkflowMutates(t, w, {})
        BY <1>3, <3>1 DEF ValidTree, MutatingJobsDisabled, CallMutates
      <3>2. CASE ~WorkflowMutates(t, w, {})
        <4> HIDE DEF t
        <4> QED
          BY <3>2, WorkflowScan
      <3> QED
        BY <3>1, <3>2
    <2> DEFINE run1 == Executed(t, j.runs \ t.generated)
               imp == Imported(t, run1)
    <2>2. \A x \in j.runs \ t.generated : ~ScriptMutates(t, x)
      BY <2>1 DEF JobMutates, StepsMutate, ScriptsMutate
    <2>3. /\ run1 \cup imp \subseteq DOMAIN t.scripts
          /\ \A x \in run1 : Reviewed(t, x) \/ Harmless(t.scripts[x].does)
          /\ \A x \in imp : t.tracked \/ Harmless(t.scripts[x].loads)
          /\ \A x \in Programs(t, run1) :
               \A y \in Imports(t, x) : Harmless(Body(t, y, CalledAnywhere(t, x)))
      BY <2>2, ScriptsAreHarmless
    <2>4. j.act # "local"
      BY <2>1 DEF JobMutates, StepsMutate, ActionMutates
    <2>5. \/ t.workflows[w].pin = "held"
          \/ /\ Harmless(j.does) /\ j.act # "unsafe" /\ j.offline # "altered"
             /\ j.container => t.workflows[w].config
      <3>1. j.does \subseteq {"read", "tool", "client", "computed"}
        BY StepAssumption
      <3> HIDE DEF t
      <3> QED
        BY <2>1, <3>1
           DEF JobMutates, StepsMutate, ActionMutates, ShellMutates, Harmless, ToolCommands,
               ClientCommands, ComputedCommands
    <2> HIDE DEF t
    <2> QED
      BY <2>1, <2>3, <2>4, <2>5, Zenon DEF JobInert
  <1>4. Inert(t)
    <2> HIDE DEF t
    <2> QED
      BY <1>3 DEF Inert
  <1> QED
    BY <1>1, <1>2, <1>4

---------------------------------------------------------------------------
(* The reads of a job *)

LEMMA Prefixed ==
  ASSUME NEW v \in Seq(Reads), NEW q, q = <<"head">> \o v
  PROVE  /\ q \in Seq(Reads) /\ Len(q) = Len(v) + 1
         /\ q[1] = "head" /\ \A i \in 1 .. Len(v) : q[i + 1] = v[i]
  <1>1. <<"head">> \in Seq(Reads) /\ Len(<<"head">>) = 1
    BY DEF Reads
  <1> QED
    BY <1>1

\* Every job ends with the evidence and writes it nowhere else.
LEMMA StepsEnd ==
  ASSUME NEW n \in DOMAIN Trees, NEW job
  PROVE  /\ Steps(Trees[n], job) \in Seq(Reads)
         /\ Len(Steps(Trees[n], job)) >= 1
         /\ \A i \in 1 .. Len(Steps(Trees[n], job)) :
              Steps(Trees[n], job)[i] = "emit" <=> i = Len(Steps(Trees[n], job))
  <1> DEFINE Ends(q) == /\ q \in Seq(Reads) /\ Len(q) >= 1
                        /\ \A i \in 1 .. Len(q) : q[i] = "emit" <=> i = Len(q)
  <1>1. PICK v : v = Trees[n].validator.verify
    OBVIOUS
  <1>2. PICK w : w = Trees[n].validator.recheck
    OBVIOUS
  <1>3. Ends(v) /\ Ends(w)
    BY <1>1, <1>2, ValidatorAssumption
  <1>4. Ends(<<"emit">>)
    BY DEF Reads
  <1>5. Ends(<<"head">> \o v)
    <2>1. PICK q : q = <<"head">> \o v
      OBVIOUS
    <2>2. /\ q \in Seq(Reads) /\ Len(q) = Len(v) + 1
          /\ q[1] = "head" /\ \A i \in 1 .. Len(v) : q[i + 1] = v[i]
      BY <1>3, <2>1, Prefixed
    <2>3. ASSUME NEW i \in 1 .. Len(q) PROVE q[i] = "emit" <=> i = Len(q)
      <3>1. CASE i = 1
        BY <1>3, <2>2, <3>1
      <3>2. CASE i # 1
        <4>1. i - 1 \in 1 .. Len(v) /\ q[i] = v[i - 1]
          BY <1>3, <2>2, <3>2
        <4> QED
          BY <1>3, <2>2, <4>1
      <3> QED
        BY <3>1, <3>2
    <2> QED
      BY <1>3, <2>1, <2>2, <2>3
  <1>6. <<>> \o v = v
    BY <1>3
  <1>7. Trees[n].intent.prechecks \in BOOLEAN
    BY ValidatorAssumption
  <1>8. Steps(Trees[n], job) \in {<<"head">> \o v, v, w, <<"emit">>}
    BY <1>1, <1>2, <1>6, <1>7 DEF Steps
  <1> HIDE DEF Ends
  <1>9. Ends(Steps(Trees[n], job))
    BY <1>3, <1>4, <1>5, <1>8
  <1> QED
    BY <1>9 DEF Ends

\* The first job reads the checks.
LEMMA VerifyReadsChecks ==
  ASSUME NEW n \in DOMAIN Trees
  PROVE  \E i \in 1 .. Len(Steps(Trees[n], "verify")) : Steps(Trees[n], "verify")[i] = "checks"
  <1>1. PICK v : v = Trees[n].validator.verify
    OBVIOUS
  <1>2. v \in Seq(Reads) /\ \E i \in 1 .. Len(v) : v[i] = "checks"
    BY <1>1, ValidatorAssumption
  <1>3. PICK i \in 1 .. Len(v) : v[i] = "checks"
    BY <1>2
  <1>4. PICK q : q = <<"head">> \o v
    OBVIOUS
  <1>5. Len(q) = Len(v) + 1 /\ \A j \in 1 .. Len(v) : q[j + 1] = v[j]
    BY <1>2, <1>4, Prefixed
  <1>6. i + 1 \in 1 .. Len(q) /\ q[i + 1] = "checks"
    BY <1>2, <1>3, <1>5
  <1>7. <<>> \o v = v
    BY <1>2
  <1>8. Steps(Trees[n], "verify") \in {q, v}
    BY <1>1, <1>4, <1>7, ValidatorAssumption DEF Steps
  <1> QED
    BY <1>3, <1>6, <1>8

\* Both jobs of an accepted commit read the main head between two reads of the
\* candidate, after the evidence of the phase before.
Sandwich(q) ==
  \E p, c, g, d \in 1 .. Len(q) :
    /\ q[p] = "prior" /\ q[c] = "candidate" /\ q[g] = "head" /\ q[d] = "candidate"
    /\ p < g /\ c < g /\ g < d

LEMMA ValidSandwich ==
  ASSUME NEW n \in DOMAIN Trees, ValidTree(Trees[n]), NEW job
  PROVE  Sandwich(Steps(Trees[n], job))
  <1>1. PICK v : v = Trees[n].validator.verify
    OBVIOUS
  <1>2. PICK w : w = Trees[n].validator.recheck
    OBVIOUS
  <1>3. v \in Seq(Reads) /\ w \in Seq(Reads)
    BY <1>1, <1>2, ValidatorAssumption
  <1>4. GateRechecks(v) /\ GateRechecks(w)
    BY <1>1, <1>2 DEF ValidTree, ValidatorValid
  <1>5. ASSUME NEW s \in Seq(Reads), GateRechecks(s) PROVE Sandwich(s)
    <2>1. PICK p \in DOMAIN s : s[p] = "prior"
      BY <1>5 DEF GateRechecks
    <2>2. PICK c1, c2, g1 \in DOMAIN s :
            /\ s[c1] = "candidate" /\ s[c2] = "candidate" /\ s[g1] = "head"
            /\ c1 < g1 /\ g1 < c2 /\ p < c1
      BY <1>5, <2>1 DEF GateRechecks
    <2>3. DOMAIN s = 1 .. Len(s) /\ Len(s) \in Nat
      OBVIOUS
    <2>4. p < g1
      BY <2>1, <2>2, <2>3
    <2> QED
      BY <2>1, <2>2, <2>3, <2>4 DEF Sandwich
  <1>6. PICK q : q = <<"head">> \o v
    OBVIOUS
  <1>7. Len(q) = Len(v) + 1 /\ \A j \in 1 .. Len(v) : q[j + 1] = v[j]
    BY <1>3, <1>6, Prefixed
  <1>8. Sandwich(q)
    <2>1. PICK p, c, g, d \in 1 .. Len(v) :
            /\ v[p] = "prior" /\ v[c] = "candidate" /\ v[g] = "head" /\ v[d] = "candidate"
            /\ p < g /\ c < g /\ g < d
      BY <1>3, <1>4, <1>5 DEF Sandwich
    <2>2. \A x \in {p, c, g, d} : x + 1 \in 1 .. Len(q) /\ q[x + 1] = v[x]
      BY <1>3, <1>7
    <2>3. p + 1 < g + 1 /\ c + 1 < g + 1 /\ g + 1 < d + 1
      BY <2>1
    <2> QED
      BY <2>1, <2>2, <2>3 DEF Sandwich
  <1>9. Steps(Trees[n], job) \in {q, w}
    BY <1>1, <1>2, <1>6 DEF Steps, ValidTree, IntentValid
  <1> QED
    BY <1>3, <1>4, <1>5, <1>8, <1>9

---------------------------------------------------------------------------
(* Types *)

RunType ==
  [st : {"idle", "queued", "verify", "waiting", "recheck", "done", "failed"},
   pc : Nat, phase : Phases, file : File \cup {NULL}, source : Nat,
   image : Image \cup {NULL}, prior : Runs \cup {NULL},
   read : Nat \cup {NULL}, evidence : Nat \cup {NULL},
   slow : BOOLEAN, joint : BOOLEAN]

CommitType == [tree : DOMAIN Trees, verified : BOOLEAN, check : {"none", "success", "failure"}]

ControlType == [file : File, green : BOOLEAN]

LEMMA TypeParts ==
  TypeOK <=> /\ main \in Seq(CommitType) /\ ctl \in Seq(ControlType)
             /\ images \subseteq Image /\ settings \subseteq Settings
             /\ run \in [Runs -> RunType] /\ changes \in 0 .. MaxChanges
  BY DEF TypeOK, CommitType, ControlType, RunType

LEMMA TypePartsNext ==
  TypeOK' <=> /\ main' \in Seq(CommitType) /\ ctl' \in Seq(ControlType)
              /\ images' \subseteq Image /\ settings' \subseteq Settings
              /\ run' \in [Runs -> RunType] /\ changes' \in 0 .. MaxChanges
  BY DEF TypeOK, CommitType, ControlType, RunType

LEMMA InitInv == Init => AdmissionInv
  <1> SUFFICES ASSUME Init PROVE AdmissionInv
    OBVIOUS
  <1>1. PICK n \in DOMAIN Trees, c \in {"success", "failure"} :
          main = <<[tree |-> n, verified |-> TRUE, check |-> c]>>
    BY DEF Init
  <1>2. main \in Seq(CommitType) /\ Len(main) = 1
    BY <1>1 DEF CommitType
  <1>3. Running \in Image /\ Candidate \in Image
    BY ReleaseBounds DEF Running, Candidate, Image
  <1>4. PICK i \in ReleaseIds :
          ctl = <<[file |-> [release |-> i, source |-> 1, image |-> Candidate,
                            previous |-> Running, rev |-> 1], green |-> TRUE]>>
    BY DEF Init
  <1>5. ctl \in Seq(ControlType) /\ Len(ctl) = 1
    BY <1>3, <1>4, ReleaseBounds DEF ControlType, File
  <1>6. images \subseteq Image /\ IsFiniteSet(images) /\ Cardinality(images) <= 2
    <2>1. IsFiniteSet({Running}) /\ Cardinality({Running}) = 1
      BY FS_Singleton
    <2>2. images = {Running} \cup {Candidate}
      BY DEF Init
    <2>3. IsFiniteSet(images) /\ Cardinality(images) \in {1, 2}
      BY <2>1, <2>2, FS_AddElement
    <2> QED
      BY <1>3, <2>2, <2>3
  <1>7. Idle \in RunType
    BY NullAssumption DEF Idle, RunType, Phases
  <1>8. TypeOK
    BY <1>2, <1>5, <1>6, <1>7, TypeParts, ReleaseBounds DEF Init
  <1>9. Counted
    BY <1>2, <1>5, <1>6 DEF Counted, Init
  <1>10. Concluded
    BY <1>2 DEF Concluded, Init
  <1>11. ASSUME NEW r \in Runs PROVE RunInv(r)
    BY DEF Init, Idle, RunInv, Sourced, InJob, Evidenced
  <1> QED
    BY <1>8, <1>9, <1>10, <1>11 DEF AdmissionInv

\* Writing one run
LEMMA OneRun ==
  ASSUME TypeOK, NEW r \in Runs, NEW new, run' = [run EXCEPT ![r] = new]
  PROVE  /\ run'[r] = new
         /\ \A q \in Runs : q # r => run'[q] = run[q]
         /\ new \in RunType => run' \in [Runs -> RunType]
  BY TypeParts

LEMMA NotedType ==
  ASSUME TypeOK, NEW r \in Runs, NEW step
  PROVE  Noted(r, step) \in RunType
  <1>1. run[r] \in RunType /\ Len(ctl) \in Nat
    BY TypeParts
  <1>2. PICK n, a, b, d :
          /\ n = run[r].pc + 1
          /\ a = IF step = "candidate" THEN Len(ctl) ELSE run[r].read
          /\ b = (run[r].slow \/ step = "prior")
          /\ d = (run[r].joint \/ (/\ run[r].slow
                                 /\ Len(main) = run[r].source
                                 /\ Len(ctl) = run[r].read))
    OBVIOUS
  <1>3. Noted(r, step) = [run[r] EXCEPT !.pc = n, !.read = a, !.slow = b, !.joint = d]
    BY <1>2, Zenon DEF Noted
  <1>4. b \in BOOLEAN /\ d \in BOOLEAN
    BY <1>2, Zenon
  <1>5. n \in Nat /\ a \in Nat \cup {NULL}
    BY <1>1, <1>2 DEF RunType
  <1> QED
    BY <1>1, <1>3, <1>4, <1>5 DEF RunType

LEMMA EmittedType ==
  ASSUME TypeOK, NEW r \in Runs
  PROVE  Emitted(r) \in RunType /\ Failed(r) \in RunType
  <1>1. run[r] \in RunType
    BY TypeParts
  <1> QED
    BY <1>1 DEF Emitted, Failed, RunType

---------------------------------------------------------------------------
(* What a step leaves alone *)

\* Commits, controller commits and finished runs stay what they are.
Kept ==
  /\ Len(main') >= Len(main) /\ \A i \in 1 .. Len(main) : main'[i].tree = main[i].tree
  /\ Len(ctl') >= Len(ctl)
  /\ \A p \in Runs : run[p].st = "done" => run'[p] = run[p]

LEMMA PriorStays ==
  ASSUME TypeOK, Kept, NEW q \in Runs, Sourced(q), run[q].st # "idle", PriorOK(q),
         run'[q].phase = run[q].phase, run'[q].prior = run[q].prior,
         run'[q].file = run[q].file, run'[q].source = run[q].source, run'[q].image = run[q].image
  PROVE  PriorOK(q)'
  BY DEF Kept, Sourced, PriorOK, Subject

LEMMA TreeStays ==
  ASSUME TypeOK, Kept, NEW i \in 1 .. Len(main)
  PROVE  Tree(i)' = Tree(i)
  BY DEF Kept, Tree

\* A run that a step does not write keeps what it knows.
LEMMA OthersKeep ==
  ASSUME TypeOK, TypeOK', Kept, NEW q \in Runs, RunInv(q), run'[q] = run[q]
  PROVE  RunInv(q)'
  <1>1. Len(main) \in Nat /\ Len(main') \in Nat /\ Len(ctl) \in Nat /\ Len(ctl') \in Nat
    BY TypeParts, TypePartsNext
  <1>2. run[q] \in RunType
    BY TypeParts
  <1>3. Sourced(q)'
    BY <1>1, <1>2, NullAssumption DEF RunInv, Sourced, Kept, RunType
  <1>4. run[q].st # "idle" => Tree(run[q].source)' = Tree(run[q].source)
    BY TreeStays DEF RunInv, Sourced
  <1>5. Evidenced(q)'
    BY <1>4 DEF RunInv, Evidenced
  <1>6. ASSUME InJob(q)' PROVE Passed(q)'
    <2>1. InJob(q) /\ Passed(q) /\ run[q].st # "idle"
      BY <1>6 DEF InJob, RunInv
    <2>2. Reading(q)' = Reading(q)
      BY <1>4, <2>1 DEF Reading
    <2>3. PriorOK(q) => PriorOK(q)'
      BY <2>1, PriorStays DEF RunInv
    <2>4. run[q].read \in Nat \/ run[q].read = NULL
      BY <1>2 DEF RunType
    <2>5. run[q].pc \in Nat
      BY <1>2 DEF RunType
    <2> DEFINE q0 == Reading(q)
               past == 1 .. run[q].pc - 1
    <2>6. run[q].pc \in 1 .. Len(q0)
      BY <2>1 DEF Passed
    <2>7. \A i \in past : /\ q0[i] = "checks" => ValidTree(Tree(run[q].source))'
                          /\ q0[i] = "prior" => run[q].slow /\ PriorOK(q)'
                          /\ q0[i] = "candidate" => run[q].read # NULL
      BY <1>4, <2>1, <2>3 DEF Passed
    <2>8. ASSUME NEW p \in past, NEW c \in past, NEW g \in past,
                 q0[p] = "prior", q0[c] = "candidate", q0[g] = "head", p < g, c < g
          PROVE  /\ run[q].joint \/ run[q].read < Len(ctl')
                 /\ \A d \in past : q0[d] = "candidate" /\ g < d => run[q].joint
      <3>1. /\ run[q].joint \/ run[q].read < Len(ctl)
            /\ \A d \in past : q0[d] = "candidate" /\ g < d => run[q].joint
        BY <2>1, <2>8 DEF Passed
      <3>2. run[q].read \in Nat
        BY <2>4, <2>7, <2>8
      <3>3. run[q].read < Len(ctl) => run[q].read < Len(ctl')
        BY <1>1, <3>2 DEF Kept
      <3> QED
        BY <3>1, <3>3
    <2> HIDE DEF q0, past
    <2>9. q0 = Reading(q)' /\ past = 1 .. run'[q].pc - 1
      BY <2>2 DEF q0, past
    <2> QED
      BY <2>6, <2>7, <2>8, <2>9 DEF Passed
  <1> QED
    BY <1>3, <1>5, <1>6 DEF RunInv

\* A step of a run writes that run only.
LEMMA OneRunWritten ==
  ASSUME AdmissionInv, NEW r \in Runs, NEW new \in RunType, run' = [run EXCEPT ![r] = new],
         run[r].st # "done",
         UNCHANGED <<main, ctl, images, settings>>,
         changes' = changes \/ (changes < MaxChanges /\ changes' = changes + 1),
         RunInv(r)'
  PROVE  AdmissionInv' /\ Kept
  <1>1. TypeOK /\ Counted /\ Concluded /\ \A q \in Runs : RunInv(q)
    BY DEF AdmissionInv
  <1>2. TypeOK'
    BY <1>1, OneRun, TypeParts, TypePartsNext, ReleaseBounds
  <1>3. Counted'
    <2>1. Cardinality(images) \in Nat /\ changes \in Nat /\ Len(main) \in Nat
      BY <1>1, TypeParts, FS_CardinalityType, ReleaseBounds DEF Counted
    <2> QED
      BY <1>1, <2>1 DEF Counted
  <1>4. Concluded'
    BY <1>1 DEF Concluded, Tree
  <1>5. Kept
    BY <1>1, OneRun, TypeParts DEF Kept
  <1>6. ASSUME NEW q \in Runs, q # r PROVE RunInv(q)'
    BY <1>1, <1>2, <1>5, <1>6, OneRun, OthersKeep
  <1> QED
    BY <1>2, <1>3, <1>4, <1>5, <1>6 DEF AdmissionInv

LEMMA DispatchKeeps ==
  ASSUME AdmissionInv, NEW r \in Runs, NEW phase \in Phases, NEW file \in Published,
         NEW image \in images \ {Running}, NEW prior \in (1 .. r - 1) \cup {NULL},
         Dispatch(r, phase, file, image, prior)
  PROVE  AdmissionInv' /\ Kept
  <1>1. TypeOK /\ Counted /\ RunInv(r)
    BY DEF AdmissionInv
  <1>2. PICK new : new = [Idle EXCEPT !.st = "queued", !.phase = phase, !.file = file,
                                !.source = Len(main), !.image = image, !.prior = prior]
    OBVIOUS
  <1>3. Len(main) \in Nat /\ Len(main) >= 1 /\ file \in File /\ image \in Image
    <2>1. PICK i \in 1 .. Len(ctl) : file = ctl[i].file
      BY DEF Published
    <2>2. ctl[i] \in ControlType
      BY <1>1, TypeParts
    <2> QED
      BY <1>1, <2>1, <2>2, TypeParts DEF ControlType, Counted
  <1>4. prior \in Runs \cup {NULL}
    BY ReleaseBounds DEF Runs
  <1>5. new \in RunType
    BY <1>2, <1>3, <1>4 DEF RunType, Idle
  <1>6. run' = [run EXCEPT ![r] = new] /\ run[r].st = "idle" /\ (phase = "plan" <=> prior = NULL)
        /\ UNCHANGED <<main, ctl, images, settings, changes>>
    BY <1>2 DEF Dispatch
  <1>7. run'[r] = new
    BY <1>1, <1>6, OneRun
  <1>8. /\ run'[r].st = "queued" /\ run'[r].source = Len(main) /\ run'[r].read = NULL
        /\ run'[r].phase = phase /\ run'[r].prior = prior /\ run'[r].evidence = NULL
    BY <1>2, <1>7 DEF Idle
  <1>9. RunInv(r)'
    BY <1>3, <1>4, <1>6, <1>8 DEF RunInv, Sourced, InJob, Evidenced
  <1> QED
    BY <1>5, <1>6, <1>9, OneRunWritten

\* A job that begins has no read behind it.
LEMMA Begun ==
  ASSUME TypeOK, TypeOK', NEW r \in Runs, RunInv(r), run[r].st # "idle", Kept,
         run'[r] = [run[r] EXCEPT !.st = "verify", !.pc = 1] \/
           (Evidenced(r)' /\ run'[r] = [run[r] EXCEPT !.st = "recheck", !.pc = 1])
  PROVE  RunInv(r)'
  <1>1. run[r] \in RunType /\ Len(ctl) \in Nat /\ Len(ctl') \in Nat /\ Len(main) \in Nat /\ Len(main') \in Nat
    BY TypeParts, TypePartsNext
  <1>2. /\ run'[r].st \in {"verify", "recheck"} /\ run'[r].pc = 1 /\ run'[r].source = run[r].source
        /\ run'[r].phase = run[r].phase /\ run'[r].prior = run[r].prior
        /\ run'[r].read = run[r].read /\ run'[r].evidence = run[r].evidence
    BY <1>1 DEF RunType
  <1>3. Sourced(r)'
    BY <1>1, <1>2, NullAssumption DEF RunInv, Sourced, Kept, RunType
  <1>4. Tree(run[r].source)' = Tree(run[r].source)
    BY <1>2 DEF RunInv, Sourced, Kept, Tree
  <1>5. Evidenced(r)'
    <2>1. CASE run'[r] = [run[r] EXCEPT !.st = "verify", !.pc = 1]
      <3>1. run'[r].st = "verify"
        BY <1>1, <2>1 DEF RunType
      <3> QED
        BY <1>2, <1>4, <3>1 DEF RunInv, Evidenced
    <2> QED
      BY <2>1
  <1>6. Passed(r)'
    <2>1. Len(Reading(r)') >= 1 /\ Len(Reading(r)') \in Nat
      <3>1. PICK n \in DOMAIN Trees : n = main'[run'[r].source].tree
        <4>1. run'[r].source \in 1 .. Len(main')
          BY <1>2, <1>3 DEF Sourced
        <4>2. main'[run'[r].source] \in CommitType
          BY <4>1, TypePartsNext
        <4> QED
          BY <4>2 DEF CommitType
      <3>2. Reading(r)' = Steps(Trees[n], run'[r].st)
        BY <3>1 DEF Reading, Tree
      <3> QED
        BY <3>2, StepsEnd
    <2> QED
      BY <1>2, <2>1 DEF Passed
  <1> QED
    BY <1>2, <1>3, <1>5, <1>6 DEF RunInv

LEMMA StartKeeps ==
  ASSUME AdmissionInv, NEW r \in Runs, Start(r)
  PROVE  AdmissionInv' /\ Kept
  <1>1. TypeOK /\ RunInv(r) /\ run[r] \in RunType
    BY TypeParts DEF AdmissionInv
  <1>2. PICK new : new = [run[r] EXCEPT !.st = "verify", !.pc = 1]
    OBVIOUS
  <1>3. new \in RunType
    BY <1>1, <1>2 DEF RunType
  <1>4. run' = [run EXCEPT ![r] = new] /\ run[r].st = "queued"
        /\ UNCHANGED <<main, ctl, images, settings, changes>>
    BY <1>1, <1>2, TypeParts DEF Start
  <1>5. run'[r] = new /\ Kept /\ TypeOK'
    BY <1>1, <1>3, <1>4, OneRun, TypeParts, TypePartsNext DEF Kept
  <1>6. RunInv(r)'
    BY <1>1, <1>2, <1>4, <1>5, Begun
  <1> QED
    BY <1>3, <1>4, <1>6, OneRunWritten

LEMMA ApproveKeeps ==
  ASSUME AdmissionInv, NEW r \in Runs, Approve(r)
  PROVE  AdmissionInv' /\ Kept
  <1>1. TypeOK /\ RunInv(r) /\ run[r] \in RunType
    BY TypeParts DEF AdmissionInv
  <1>2. PICK new : new = [run[r] EXCEPT !.st = "recheck", !.pc = 1]
    OBVIOUS
  <1>3. new \in RunType
    BY <1>1, <1>2 DEF RunType
  <1>4. run' = [run EXCEPT ![r] = new] /\ run[r].st = "waiting"
        /\ UNCHANGED <<main, ctl, images, settings, changes>>
    BY <1>1, <1>2, TypeParts DEF Approve
  <1>5. run'[r] = new /\ Kept /\ TypeOK'
    BY <1>1, <1>3, <1>4, OneRun, TypeParts, TypePartsNext DEF Kept
  <1>6. Evidenced(r)'
    <2>1. run'[r].source = run[r].source /\ run'[r].st = "recheck"
      BY <1>1, <1>2, <1>5 DEF RunType
    <2>2. Tree(run[r].source)' = Tree(run[r].source)
      BY <1>4, <2>1 DEF Tree
    <2> QED
      BY <1>1, <1>4, <2>1, <2>2 DEF RunInv, Evidenced
  <1>7. RunInv(r)'
    BY <1>1, <1>2, <1>4, <1>5, <1>6, Begun
  <1> QED
    BY <1>3, <1>4, <1>7, OneRunWritten

\* A run outside its jobs keeps where it comes from and what it has shown.
LEMMA FailedKeeps ==
  ASSUME TypeOK, NEW r \in Runs, RunInv(r), Active(r), run'[r] = Failed(r),
         UNCHANGED <<main, ctl>>
  PROVE  RunInv(r)'
  <1>1. run[r] \in RunType
    BY TypeParts
  <1>2. /\ run'[r].st = "failed" /\ run'[r].source = run[r].source
        /\ run'[r].phase = run[r].phase /\ run'[r].prior = run[r].prior
        /\ run'[r].read = NULL /\ run'[r].evidence = run[r].evidence
    BY <1>1 DEF Failed, RunType
  <1> QED
    BY <1>2 DEF RunInv, Sourced, InJob, Evidenced, Active, Tree

LEMMA InterruptKeeps ==
  ASSUME AdmissionInv, NEW r \in Runs, Interrupt(r)
  PROVE  AdmissionInv' /\ Kept
  <1>1. TypeOK /\ RunInv(r) /\ run[r] \in RunType
    BY TypeParts DEF AdmissionInv
  <1>2. PICK new : new = Failed(r)
    OBVIOUS
  <1>3. new \in RunType
    BY <1>1, <1>2, EmittedType
  <1>4. run' = [run EXCEPT ![r] = new] /\ Active(r) /\ run[r].st # "done"
        /\ UNCHANGED <<main, ctl, images, settings>>
        /\ changes < MaxChanges /\ changes' = changes + 1
    BY <1>2 DEF Interrupt, Active
  <1>5. run'[r] = new
    BY <1>1, <1>4, OneRun
  <1>6. RunInv(r)'
    BY <1>1, <1>2, <1>4, <1>5, FailedKeeps
  <1> QED
    BY <1>3, <1>4, <1>6, OneRunWritten

LEMMA RerunKeeps ==
  ASSUME AdmissionInv, NEW r \in Runs, Rerun(r)
  PROVE  AdmissionInv' /\ Kept
  <1>1. TypeOK /\ RunInv(r) /\ run[r] \in RunType
    BY TypeParts DEF AdmissionInv
  <1>2. PICK new : new = IF run[r].evidence = NULL
                         THEN [run[r] EXCEPT !.st = "verify", !.pc = 1]
                         ELSE [run[r] EXCEPT !.st = "waiting", !.pc = 0]
    OBVIOUS
  <1>3. new \in RunType
    BY <1>1, <1>2 DEF RunType
  <1>4. run' = [run EXCEPT ![r] = new] /\ run[r].st = "failed"
        /\ UNCHANGED <<main, ctl, images, settings>>
        /\ changes < MaxChanges /\ changes' = changes + 1
    BY <1>1, <1>2, TypeParts DEF Rerun
  <1>5. run'[r] = new /\ Kept /\ TypeOK'
    BY <1>1, <1>3, <1>4, OneRun, TypeParts, TypePartsNext, ReleaseBounds DEF Kept
  <1>6. RunInv(r)'
    <2>1. CASE run[r].evidence = NULL
      BY <1>1, <1>2, <1>4, <1>5, <2>1, Begun
    <2>2. CASE run[r].evidence # NULL
      <3>1. /\ run'[r].st = "waiting" /\ run'[r].source = run[r].source
            /\ run'[r].phase = run[r].phase /\ run'[r].prior = run[r].prior
            /\ run'[r].read = run[r].read /\ run'[r].evidence = run[r].evidence
        BY <1>1, <1>2, <1>5, <2>2 DEF RunType
      <3> QED
        BY <1>1, <1>4, <2>2, <3>1 DEF RunInv, Sourced, InJob, Evidenced, Tree
    <2> QED
      BY <2>1, <2>2
  <1> QED
    BY <1>3, <1>4, <1>6, OneRunWritten

\* The commit of a job, and the shape of what it reads
LEMMA JobReads ==
  ASSUME TypeOK, NEW r \in Runs, RunInv(r), InJob(r)
  PROVE  /\ run[r].source \in 1 .. Len(main) /\ run[r].pc \in 1 .. Len(Reading(r))
         /\ Reading(r) \in Seq(Reads) /\ Len(Reading(r)) \in Nat
         /\ \A i \in 1 .. Len(Reading(r)) : Reading(r)[i] = "emit" <=> i = Len(Reading(r))
         /\ \E n \in DOMAIN Trees : Tree(run[r].source) = Trees[n]
  <1>1. run[r].source \in 1 .. Len(main) /\ run[r].pc \in 1 .. Len(Reading(r))
    BY DEF RunInv, Sourced, InJob, Passed
  <1>2. main[run[r].source] \in CommitType
    BY <1>1, TypeParts
  <1>3. PICK n \in DOMAIN Trees : n = main[run[r].source].tree
    BY <1>2 DEF CommitType
  <1>4. Reading(r) = Steps(Trees[n], run[r].st) /\ Tree(run[r].source) = Trees[n]
    BY <1>3 DEF Reading, Tree
  <1> QED
    BY <1>1, <1>4, StepsEnd

\* At its last step a job has seen all it has to see.
LEMMA EmitKnows ==
  ASSUME TypeOK, NEW r \in Runs, RunInv(r), InJob(r), Reading(r)[run[r].pc] = "emit"
  PROVE  ValidTree(Tree(run[r].source)) /\ run[r].joint /\ PriorOK(r)
  <1>1. PICK n \in DOMAIN Trees : Tree(run[r].source) = Trees[n]
    BY JobReads
  <1>2. PICK q : q = Reading(r)
    OBVIOUS
  <1>3. run[r].pc = Len(q) /\ Len(q) \in Nat
        /\ \A i \in 1 .. Len(q) : q[i] = "emit" <=> i = Len(q)
    BY <1>2, JobReads
  <1>4. q = Steps(Trees[n], run[r].st)
    BY <1>1, <1>2 DEF Reading
  <1>5. \A i \in 1 .. Len(q) : q[i] # "emit" => i \in 1 .. run[r].pc - 1
    BY <1>3
  <1>6. ValidTree(Tree(run[r].source))
    <2>1. CASE run[r].st = "recheck"
      BY <2>1 DEF RunInv, Evidenced
    <2>2. CASE run[r].st = "verify"
      <3>1. PICK i \in 1 .. Len(q) : q[i] = "checks"
        BY <1>4, <2>2, VerifyReadsChecks
      <3>2. i \in 1 .. run[r].pc - 1
        BY <1>5, <3>1
      <3> QED
        BY <1>2, <3>1, <3>2 DEF RunInv, Passed
    <2> QED
      BY <2>1, <2>2 DEF InJob
  <1>7. Sandwich(q)
    BY <1>1, <1>4, <1>6, ValidSandwich
  <1>8. PICK p, c, g, d \in 1 .. Len(q) :
          /\ q[p] = "prior" /\ q[c] = "candidate" /\ q[g] = "head" /\ q[d] = "candidate"
          /\ p < g /\ c < g /\ g < d
    BY <1>7 DEF Sandwich
  <1>9. {p, c, g, d} \subseteq 1 .. run[r].pc - 1
    BY <1>5, <1>8
  <1> QED
    BY <1>2, <1>6, <1>8, <1>9 DEF RunInv, Passed

LEMMA EmittedKeeps ==
  ASSUME TypeOK, NEW r \in Runs, RunInv(r), InJob(r), Reading(r)[run[r].pc] = "emit",
         run'[r] = Emitted(r), UNCHANGED <<main, ctl>>
  PROVE  RunInv(r)'
  <1>1. run[r] \in RunType
    BY TypeParts
  <1>2. ValidTree(Tree(run[r].source)) /\ run[r].joint
    BY EmitKnows
  <1>3. /\ run'[r].st \in {"waiting", "done"} /\ run'[r].source = run[r].source
        /\ run'[r].phase = run[r].phase /\ run'[r].prior = run[r].prior
        /\ run'[r].read \in {run[r].read, NULL}
        /\ run'[r].st = "done" => run'[r].joint = run[r].joint
    BY <1>1 DEF Emitted, RunType
  <1>4. Sourced(r)'
    BY <1>3 DEF RunInv, Sourced, InJob
  <1>5. ValidTree(Tree(run[r].source))'
    BY <1>2, <1>3 DEF Tree
  <1> QED
    BY <1>2, <1>3, <1>4, <1>5 DEF RunInv, InJob, Evidenced

\* A read that passes adds what it has seen.
LEMMA NotedKeeps ==
  ASSUME TypeOK, Concluded, Kept, NEW r \in Runs, RunInv(r), InJob(r), NEW step,
         step = Reading(r)[run[r].pc], step # "emit", StepOK(r, step),
         run'[r] = Noted(r, step), UNCHANGED <<main, ctl>>
  PROVE  RunInv(r)'
  <1>1. run[r] \in RunType /\ Len(ctl) \in Nat
    BY TypeParts
  <1>2. /\ run'[r].st = run[r].st /\ run'[r].source = run[r].source
        /\ run'[r].phase = run[r].phase /\ run'[r].prior = run[r].prior
        /\ run'[r].file = run[r].file /\ run'[r].image = run[r].image
        /\ run'[r].evidence = run[r].evidence /\ run'[r].pc = run[r].pc + 1
        /\ run'[r].read = IF step = "candidate" THEN Len(ctl) ELSE run[r].read
    BY <1>1 DEF Noted, RunType
  <1>3. /\ run'[r].slow = (run[r].slow \/ step = "prior")
        /\ run'[r].joint = (run[r].joint \/ (/\ run[r].slow
                                             /\ Len(main) = run[r].source
                                             /\ Len(ctl) = run[r].read))
    BY <1>1, Zenon DEF Noted, RunType
  <1>4. run[r].pc \in Nat /\ (run[r].read \in Nat \/ run[r].read = NULL) /\ NULL \notin Nat
    BY <1>1, NullAssumption DEF RunType
  <1>5. Sourced(r)'
    BY <1>1, <1>2, <1>4 DEF RunInv, Sourced
  <1>6. Evidenced(r)'
    BY <1>2 DEF RunInv, Evidenced, Tree
  <1>7. PICK q : q = Reading(r)
    OBVIOUS
  <1>8. q = Reading(r)'
    BY <1>2, <1>7 DEF Reading, Tree
  <1>9. /\ Len(q) \in Nat /\ run[r].pc \in 1 .. Len(q) /\ step = q[run[r].pc]
        /\ run[r].pc + 1 \in 1 .. Len(q) /\ run[r].source \in 1 .. Len(main)
    BY <1>7, JobReads
  <1>10. PICK past : past = 1 .. run[r].pc - 1
    OBVIOUS
  <1>11. /\ \A i \in past :
              /\ q[i] = "checks" => ValidTree(Tree(run[r].source))
              /\ q[i] = "prior" => run[r].slow /\ PriorOK(r)
              /\ q[i] = "candidate" => run[r].read # NULL
         /\ \A p, c, g \in past :
              q[p] = "prior" /\ q[c] = "candidate" /\ q[g] = "head" /\ p < g /\ c < g =>
                /\ run[r].joint \/ run[r].read < Len(ctl)
                /\ \A d \in past : q[d] = "candidate" /\ g < d => run[r].joint
    BY <1>7, <1>10 DEF RunInv, Passed
  <1>12. 1 .. run'[r].pc - 1 = past \cup {run[r].pc}
    BY <1>2, <1>4, <1>9, <1>10
  <1>13. step = "candidate" => run[r].read \in {NULL, Len(ctl)}
    BY DEF StepOK, CandidateOK
  <1>14. step = "head" => Len(main) = run[r].source
    BY DEF StepOK, HeadOK
  <1>15. step = "prior" => PriorOK(r)
    BY DEF StepOK
  <1>16. step = "checks" => ValidTree(Tree(run[r].source))
    <2> SUFFICES ASSUME step = "checks" PROVE ValidTree(Tree(run[r].source))
      OBVIOUS
    <2>1. BoundSource(r) /\ main[run[r].source].check = "success"
      BY DEF StepOK, ChecksOK
    <2>2. PICK n \in DOMAIN Trees : Tree(run[r].source) = Trees[n]
      BY JobReads
    <2>3. CheckIsPinned(Trees[n])
      BY <2>1, <2>2, BoundIsPinned DEF BoundSource
    <2> QED
      BY <1>9, <2>1, <2>2, <2>3 DEF Concluded, ConcludesSuccess
  <1>17. PriorOK(r) => PriorOK(r)'
    BY <1>2, PriorStays DEF RunInv, InJob
  <1>18. ValidTree(Tree(run[r].source)) => ValidTree(Tree(run[r].source))'
    BY <1>2 DEF Tree
  <1>19. ASSUME NEW i \in past \cup {run[r].pc}
         PROVE  /\ q[i] = "checks" => ValidTree(Tree(run[r].source))'
                /\ q[i] = "prior" => run'[r].slow /\ PriorOK(r)'
                /\ q[i] = "candidate" => run'[r].read # NULL
    <2>1. CASE i = run[r].pc
      BY <1>1, <1>2, <1>3, <1>4, <1>9, <1>15, <1>16, <1>17, <1>18, <2>1
    <2>2. CASE i \in past
      BY <1>1, <1>2, <1>3, <1>4, <1>11, <1>17, <1>18, <2>2
    <2> QED
      BY <2>1, <2>2
  <1>20. ASSUME NEW p \in past \cup {run[r].pc}, NEW c \in past \cup {run[r].pc},
                NEW g \in past \cup {run[r].pc},
                q[p] = "prior", q[c] = "candidate", q[g] = "head", p < g, c < g
         PROVE  /\ run'[r].joint \/ run'[r].read < Len(ctl)
                /\ \A d \in past \cup {run[r].pc} : q[d] = "candidate" /\ g < d => run'[r].joint
    <2>1. p \in past /\ c \in past
      BY <1>4, <1>10, <1>20
    <2>2. run[r].slow /\ run[r].read \in Nat /\ run[r].read <= Len(ctl)
      BY <1>4, <1>11, <1>20, <2>1 DEF RunInv, Sourced
    <2>3. CASE g = run[r].pc
      <3>1. Len(main) = run[r].source /\ run'[r].read = run[r].read
        BY <1>2, <1>9, <1>14, <1>20, <2>3
      <3>2. run[r].read = Len(ctl) => run'[r].joint
        BY <1>3, <2>2, <3>1, Zenon
      <3>3. run'[r].joint \/ run'[r].read < Len(ctl)
        BY <1>1, <2>2, <3>1, <3>2
      <3>4. \A d \in past \cup {run[r].pc} : ~(g < d)
        BY <1>4, <1>10, <2>3
      <3> QED
        BY <3>3, <3>4
    <2>4. CASE g \in past
      <3>1. /\ run[r].joint \/ run[r].read < Len(ctl)
            /\ \A d \in past : q[d] = "candidate" /\ g < d => run[r].joint
        BY <1>11, <1>20, <2>1, <2>4
      <3>2. run[r].joint => run'[r].joint
        BY <1>3, Zenon
      <3>3. step = "candidate" => run[r].joint
        BY <1>1, <1>4, <1>13, <2>2, <3>1
      <3>4. step # "candidate" => run'[r].read = run[r].read
        BY <1>2
      <3>5. run'[r].joint \/ run'[r].read < Len(ctl)
        BY <3>1, <3>2, <3>3, <3>4
      <3>6. ASSUME NEW d \in past \cup {run[r].pc}, q[d] = "candidate", g < d
            PROVE  run'[r].joint
        BY <1>9, <3>1, <3>2, <3>3, <3>6
      <3> QED
        BY <3>5, <3>6
    <2> QED
      BY <2>3, <2>4
  <1>21. Passed(r)'
    <2>1. run'[r].pc \in 1 .. Len(q) /\ Len(ctl') = Len(ctl)
      BY <1>2, <1>9
    <2> QED
      BY <1>8, <1>12, <1>19, <1>20, <2>1 DEF Passed
  <1> QED
    BY <1>2, <1>5, <1>6, <1>21 DEF RunInv, InJob

\* Step(r) as one of its three outcomes
LEMMA StepOutcome ==
  ASSUME TypeOK, NEW r \in Runs, Step(r)
  PROVE  /\ InJob(r) /\ UNCHANGED <<main, ctl, images, settings, changes>>
         /\ \E new \in RunType :
              /\ run' = [run EXCEPT ![r] = new]
              /\ \/ new = Failed(r)
                 \/ new = Emitted(r) /\ Reading(r)[run[r].pc] = "emit"
                 \/ \E step : /\ step = Reading(r)[run[r].pc] /\ step # "emit" /\ StepOK(r, step)
                              /\ new = Noted(r, step)
  <1>1. PICK step : step = Reading(r)[run[r].pc]
    OBVIOUS
  <1>2. PICK new : new = IF ~StepOK(r, step) THEN Failed(r)
                         ELSE IF step = "emit" THEN Emitted(r) ELSE Noted(r, step)
    OBVIOUS
  <1>3. new \in RunType
    BY <1>2, NotedType, EmittedType
  <1>4. run' = [run EXCEPT ![r] = new] /\ UNCHANGED <<main, ctl, images, settings, changes>>
    BY <1>1, <1>2, Zenon DEF Step, Reading
  <1>5. InJob(r)
    BY DEF Step, InJob
  <1> QED
    BY <1>1, <1>2, <1>3, <1>4, <1>5

LEMMA StepKeeps ==
  ASSUME AdmissionInv, NEW r \in Runs, Step(r)
  PROVE  AdmissionInv' /\ Kept
  <1>1. TypeOK /\ RunInv(r) /\ Concluded
    BY DEF AdmissionInv
  <1>2. InJob(r) /\ UNCHANGED <<main, ctl, images, settings, changes>>
    BY <1>1, StepOutcome
  <1>3. PICK new \in RunType :
          /\ run' = [run EXCEPT ![r] = new]
          /\ \/ new = Failed(r)
             \/ new = Emitted(r) /\ Reading(r)[run[r].pc] = "emit"
             \/ \E step : /\ step = Reading(r)[run[r].pc] /\ step # "emit" /\ StepOK(r, step)
                          /\ new = Noted(r, step)
    BY <1>1, StepOutcome
  <1>4. run'[r] = new /\ run[r].st # "done" /\ Active(r)
    BY <1>1, <1>2, <1>3, OneRun DEF InJob, Active
  <1>5. Kept
    BY <1>1, <1>2, <1>3, <1>4, OneRun, TypeParts DEF Kept
  <1>6. CASE new = Failed(r)
    <2>1. RunInv(r)'
      BY <1>1, <1>2, <1>4, <1>6, FailedKeeps
    <2> QED
      BY <1>2, <1>3, <1>4, <2>1, OneRunWritten
  <1>7. CASE new = Emitted(r) /\ Reading(r)[run[r].pc] = "emit"
    <2>1. RunInv(r)'
      BY <1>1, <1>2, <1>4, <1>7, EmittedKeeps
    <2> QED
      BY <1>2, <1>3, <1>4, <2>1, OneRunWritten
  <1>8. CASE \E step : /\ step = Reading(r)[run[r].pc] /\ step # "emit" /\ StepOK(r, step)
                       /\ new = Noted(r, step)
    <2>1. PICK step : /\ step = Reading(r)[run[r].pc] /\ step # "emit" /\ StepOK(r, step)
                      /\ new = Noted(r, step)
      BY <1>8
    <2>2. RunInv(r)'
      BY <1>1, <1>2, <1>4, <1>5, <2>1, NotedKeeps
    <2> QED
      BY <1>2, <1>3, <1>4, <2>2, OneRunWritten
  <1> QED
    BY <1>3, <1>6, <1>7, <1>8

\* The world changes between the reads of a run, never under a finished one.
LEMMA WorldKeeps ==
  ASSUME AdmissionInv, TypeOK', Counted', Concluded', run' = run,
         Len(main') >= Len(main), \A i \in 1 .. Len(main) : main'[i].tree = main[i].tree,
         Len(ctl') >= Len(ctl)
  PROVE  AdmissionInv' /\ Kept
  <1>1. Kept
    BY DEF Kept
  <1>2. ASSUME NEW q \in Runs PROVE RunInv(q)'
    BY <1>1, OthersKeep DEF AdmissionInv
  <1> QED
    BY <1>1, <1>2 DEF AdmissionInv

LEMMA MergeKeeps ==
  ASSUME AdmissionInv, NEW n \in Successors, NEW verified \in BOOLEAN, Merge(n, verified)
  PROVE  AdmissionInv' /\ Kept
  <1>1. TypeOK /\ Counted /\ Concluded
    BY DEF AdmissionInv
  <1>2. PICK c : c = [tree |-> n, verified |-> verified, check |-> "none"]
    OBVIOUS
  <1>3. /\ main' = Append(main, c) /\ UNCHANGED <<ctl, images, settings, run>>
        /\ changes < MaxChanges /\ changes' = changes + 1
    BY <1>2 DEF Merge, World
  <1>4. c \in CommitType
    BY <1>2, ReleaseBounds DEF CommitType
  <1>5. /\ Len(main') = Len(main) + 1 /\ Len(main) \in Nat /\ main'[Len(main) + 1] = c
        /\ \A i \in 1 .. Len(main) : main'[i] = main[i]
        /\ main' \in Seq(CommitType)
    BY <1>1, <1>3, <1>4, TypeParts
  <1>6. TypeOK'
    BY <1>1, <1>3, <1>5, TypeParts, TypePartsNext, ReleaseBounds
  <1>7. Cardinality(images) \in Nat /\ changes \in Nat
    BY <1>1, TypeParts, FS_CardinalityType, ReleaseBounds DEF Counted
  <1>8. Counted'
    BY <1>1, <1>3, <1>5, <1>7 DEF Counted
  <1>9. Concluded'
    <2> SUFFICES ASSUME NEW i \in 1 .. Len(main'), main'[i].check = "success"
                 PROVE  ConcludesSuccess(Trees[main'[i].tree])
      BY DEF Concluded, Tree
    <2>1. i \in 1 .. Len(main)
      BY <1>2, <1>5
    <2> QED
      BY <1>1, <1>5, <2>1 DEF Concluded, Tree
  <1> QED
    BY <1>3, <1>5, <1>6, <1>8, <1>9, WorldKeeps

LEMMA ConcludeKeeps ==
  ASSUME AdmissionInv, NEW j \in 1 .. Len(main), NEW result \in {"success", "failure"},
         Conclude(j, result)
  PROVE  AdmissionInv' /\ Kept
  <1>1. TypeOK /\ Counted /\ Concluded
    BY DEF AdmissionInv
  <1>2. PICK c : c = [main[j] EXCEPT !.check = result]
    OBVIOUS
  <1>3. /\ main' = [main EXCEPT ![j] = c] /\ UNCHANGED <<ctl, images, settings, run>>
        /\ changes < MaxChanges /\ changes' = changes + 1
        /\ result = "success" => ConcludesSuccess(Tree(j))
    BY <1>1, <1>2, TypeParts DEF Conclude, World
  <1>4. main[j] \in CommitType /\ Len(main) \in Nat
    BY <1>1, TypeParts
  <1>5. c \in CommitType /\ c.tree = main[j].tree /\ c.check = result
    BY <1>2, <1>4 DEF CommitType
  <1>6. /\ main' \in Seq(CommitType) /\ Len(main') = Len(main)
        /\ \A i \in 1 .. Len(main) : main'[i] = IF i = j THEN c ELSE main[i]
    BY <1>1, <1>3, <1>5, TypeParts
  <1>7. TypeOK'
    BY <1>1, <1>3, <1>6, TypeParts, TypePartsNext, ReleaseBounds
  <1>8. Cardinality(images) \in Nat /\ changes \in Nat
    BY <1>1, TypeParts, FS_CardinalityType, ReleaseBounds DEF Counted
  <1>9. Counted'
    BY <1>1, <1>3, <1>4, <1>6, <1>8 DEF Counted
  <1>10. Concluded'
    <2> SUFFICES ASSUME NEW i \in 1 .. Len(main'), main'[i].check = "success"
                 PROVE  ConcludesSuccess(Trees[main'[i].tree])
      BY DEF Concluded, Tree
    <2>1. CASE i = j
      BY <1>3, <1>5, <1>6, <2>1 DEF Tree
    <2>2. CASE i # j
      BY <1>1, <1>6, <2>2 DEF Concluded, Tree
    <2> QED
      BY <2>1, <2>2
  <1>11. \A i \in 1 .. Len(main) : main'[i].tree = main[i].tree
    BY <1>5, <1>6
  <1> QED
    BY <1>3, <1>4, <1>6, <1>7, <1>9, <1>10, <1>11, TypeParts, WorldKeeps DEF AdmissionInv

LEMMA BuildKeeps ==
  ASSUME AdmissionInv, Build
  PROVE  AdmissionInv' /\ Kept
  <1>1. TypeOK /\ Counted /\ Concluded
    BY DEF AdmissionInv
  <1>2. PICK i : i = [source |-> Len(main), build |-> Cardinality(images)]
    OBVIOUS
  <1>3. /\ images' = images \cup {i} /\ UNCHANGED <<main, ctl, settings, run>>
        /\ changes < MaxChanges /\ changes' = changes + 1
    BY <1>2 DEF Build, World
  <1>4. Cardinality(images) \in Nat /\ changes \in Nat /\ Len(main) \in Nat /\ Len(ctl) \in Nat
    BY <1>1, TypeParts, FS_CardinalityType, ReleaseBounds DEF Counted
  <1>5. i \in Image
    BY <1>1, <1>2, <1>3, <1>4, ReleaseBounds DEF Counted, Image
  <1>6. TypeOK'
    BY <1>1, <1>3, <1>5, TypeParts, TypePartsNext, ReleaseBounds
  <1>7. IsFiniteSet(images') /\ Cardinality(images') \in {Cardinality(images), Cardinality(images) + 1}
    BY <1>1, <1>3, FS_AddElement DEF Counted
  <1>8. Counted'
    BY <1>1, <1>3, <1>4, <1>7 DEF Counted
  <1>9. Concluded'
    BY <1>1, <1>3 DEF Concluded, Tree
  <1> QED
    BY <1>3, <1>4, <1>6, <1>8, <1>9, WorldKeeps

\* The controller's repository moves on; its commits are not rewritten.
LEMMA ControlKeeps ==
  ASSUME AdmissionInv, UNCHANGED <<main, images, settings, run>>,
         changes < MaxChanges, changes' = changes + 1,
         ctl' \in Seq(ControlType), Len(ctl') >= Len(ctl)
  PROVE  AdmissionInv' /\ Kept
  <1>1. TypeOK /\ Counted /\ Concluded
    BY DEF AdmissionInv
  <1>2. TypeOK'
    BY <1>1, TypeParts, TypePartsNext, ReleaseBounds
  <1>3. Cardinality(images) \in Nat /\ changes \in Nat /\ Len(main) \in Nat /\ Len(ctl) \in Nat
        /\ Len(ctl') \in Nat
    BY <1>1, TypeParts, FS_CardinalityType, ReleaseBounds DEF Counted
  <1>4. Counted'
    BY <1>1, <1>3 DEF Counted
  <1>5. Concluded'
    BY <1>1 DEF Concluded, Tree
  <1> QED
    BY <1>2, <1>3, <1>4, <1>5, WorldKeeps

LEMMA PublishFileKeeps ==
  ASSUME AdmissionInv, NEW f \in Writable, PublishFile(f)
  PROVE  AdmissionInv' /\ Kept
  <1>1. TypeOK /\ Counted
    BY DEF AdmissionInv
  <1>2. PICK c : c = [file |-> f, green |-> TRUE]
    OBVIOUS
  <1>3. /\ ctl' = Append(ctl, c) /\ UNCHANGED <<main, images, settings, run>>
        /\ changes < MaxChanges /\ changes' = changes + 1
    BY <1>2 DEF PublishFile, World
  <1>4. f \in File
    <2>1. Running \in Image
      BY ReleaseBounds DEF Running, Image
    <2>2. images \subseteq Image /\ 1 .. Len(main) \subseteq 1 .. MaxChanges + 1
      BY <1>1, TypeParts, ReleaseBounds DEF Counted
    <2> QED
      BY <2>1, <2>2 DEF Writable, File
  <1>5. c \in ControlType
    BY <1>2, <1>4 DEF ControlType
  <1>6. ctl' \in Seq(ControlType) /\ Len(ctl') >= Len(ctl)
    BY <1>1, <1>3, <1>5, TypeParts
  <1> QED
    BY <1>3, <1>6, ControlKeeps

LEMMA ReconcludeKeeps ==
  ASSUME AdmissionInv, Reconclude
  PROVE  AdmissionInv' /\ Kept
  <1>1. TypeOK /\ Counted
    BY DEF AdmissionInv
  <1>2. PICK c : c = [ctl[Len(ctl)] EXCEPT !.green = ~ctl[Len(ctl)].green]
    OBVIOUS
  <1>3. UNCHANGED <<main, images, settings, run>> /\ changes < MaxChanges /\ changes' = changes + 1
    BY DEF Reconclude, World
  <1>4. ctl' = [ctl EXCEPT ![Len(ctl)] = c]
    BY <1>2 DEF Reconclude
  <1>5. Len(ctl) \in 1 .. Len(ctl) /\ ctl[Len(ctl)] \in ControlType
    BY <1>1, TypeParts DEF Counted
  <1>6. c \in ControlType
    BY <1>2, <1>5 DEF ControlType
  <1>7. ctl' \in Seq(ControlType) /\ Len(ctl') >= Len(ctl)
    BY <1>1, <1>4, <1>5, <1>6, TypeParts
  <1> QED
    BY <1>3, <1>7, ControlKeeps

LEMMA ConfigureKeeps ==
  ASSUME AdmissionInv, NEW s \in Settings, Configure(s)
  PROVE  AdmissionInv' /\ Kept
  <1>1. TypeOK /\ Counted /\ Concluded
    BY DEF AdmissionInv
  <1>2. UNCHANGED <<main, ctl, images, run>> /\ changes < MaxChanges /\ changes' = changes + 1
        /\ settings' \subseteq settings \cup {s}
    BY DEF Configure, World
  <1>3. TypeOK'
    BY <1>1, <1>2, TypeParts, TypePartsNext, ReleaseBounds
  <1>4. Cardinality(images) \in Nat /\ changes \in Nat /\ Len(main) \in Nat /\ Len(ctl) \in Nat
    BY <1>1, TypeParts, FS_CardinalityType, ReleaseBounds DEF Counted
  <1>5. Counted'
    BY <1>1, <1>2, <1>4 DEF Counted
  <1>6. Concluded'
    BY <1>1, <1>2 DEF Concluded, Tree
  <1> QED
    BY <1>2, <1>3, <1>4, <1>5, <1>6, WorldKeeps

LEMMA NextKeeps ==
  ASSUME AdmissionInv, [Next]_vars
  PROVE  AdmissionInv' /\ Kept
  <1>1. ASSUME NEW r \in Runs, NEW phase \in Phases, NEW file \in Published,
               NEW image \in images \ {Running}, NEW prior \in (1 .. r - 1) \cup {NULL},
               Dispatch(r, phase, file, image, prior)
        PROVE  AdmissionInv' /\ Kept
    BY <1>1, DispatchKeeps
  <1>2. ASSUME NEW r \in Runs, Start(r) \/ Step(r) \/ Approve(r) \/ Interrupt(r) \/ Rerun(r)
        PROVE  AdmissionInv' /\ Kept
    BY <1>2, StartKeeps, StepKeeps, ApproveKeeps, InterruptKeeps, RerunKeeps
  <1>3. ASSUME NEW n \in Successors, NEW verified \in BOOLEAN, Merge(n, verified)
        PROVE  AdmissionInv' /\ Kept
    BY <1>3, MergeKeeps
  <1>4. ASSUME NEW i \in 1 .. Len(main), NEW result \in {"success", "failure"}, Conclude(i, result)
        PROVE  AdmissionInv' /\ Kept
    BY <1>4, ConcludeKeeps
  <1>5. ASSUME NEW f \in Writable, PublishFile(f) PROVE AdmissionInv' /\ Kept
    BY <1>5, PublishFileKeeps
  <1>6. ASSUME NEW s \in Settings, Configure(s) PROVE AdmissionInv' /\ Kept
    BY <1>6, ConfigureKeeps
  <1>7. CASE Build \/ Reconclude
    BY <1>7, BuildKeeps, ReconcludeKeeps
  <1>8. CASE UNCHANGED vars
    <2>1. TypeOK' /\ Counted' /\ Concluded' /\ run' = run
      BY <1>8 DEF AdmissionInv, vars, TypeOK, Counted, Concluded, Tree
    <2>2. Len(main) \in Nat /\ Len(ctl) \in Nat
      BY TypeParts DEF AdmissionInv
    <2> QED
      BY <1>8, <2>1, <2>2, WorldKeeps DEF vars
  <1> QED
    BY <1>1, <1>2, <1>3, <1>4, <1>5, <1>6, <1>7, <1>8 DEF Next

LEMMA AdmissionIsInvariant == Spec => []AdmissionInv
  <1>1. AdmissionInv /\ [Next]_vars => AdmissionInv'
    BY NextKeeps
  <1> QED
    BY <1>1, InitInv, PTL DEF Spec

---------------------------------------------------------------------------
(* The theorems *)

\* Whatever moves between the reads of the release validator, evidence is uploaded
\* only after one moment, behind the slow validation, at which both heads were the
\* ones validated: for every set of commits a repository may hold, including
\* commits that rewrite the validator or the workflow that runs it.
THEOREM HeadsMeet == Spec => []JointAfterChecks
  <1>1. AdmissionInv => JointAfterChecks
    BY DEF AdmissionInv, RunInv, JointAfterChecks
  <1> QED
    BY <1>1, AdmissionIsInvariant, PTL

\* A finished run is inert: whatever a commit holds, and whatever is merged, built
\* or re-run between the reads, evidence is uploaded only for a commit whose
\* enabled jobs are inert as far as Inert looks (ValidIsInert), whose release
\* validator only reads evidence and whose artifact signer attests what it pushes.
THEOREM AdmittedStaysInert == Spec => []AdmittedIsInert
  <1>1. AdmissionInv => AdmittedIsInert
    <2> SUFFICES ASSUME AdmissionInv, NEW r \in Runs, run[r].st = "done",
                        NEW t, t = Tree(run[r].source)
                 PROVE  Inert(t) /\ IntentInert(t) /\ PublishedIsAttested(t.signer)
      BY DEF AdmittedIsInert
    <2>1. run[r].source \in 1 .. Len(main) /\ ValidTree(t)
      BY DEF AdmissionInv, RunInv, Sourced, Evidenced
    <2>2. main[run[r].source] \in CommitType
      BY <2>1, TypeParts DEF AdmissionInv
    <2>3. PICK n \in DOMAIN Trees : t = Trees[n]
      BY <2>2 DEF CommitType, Tree
    <2> QED
      BY <2>1, <2>3, ValidIsInert
  <1> QED
    BY <1>1, AdmissionIsInvariant, PTL

\* A run that finishes has its predecessor's evidence behind it.
LEMMA FinishedHasPrior ==
  ASSUME AdmissionInv, Next, NEW r \in Runs, run[r].st # "done", run'[r].st = "done"
  PROVE  /\ PriorOK(r) /\ run'[r].phase = run[r].phase /\ Subject(r)' = Subject(r)
         /\ run[r].st # "idle"
         /\ \A q \in Runs : q # r => run'[q] = run[q]
  <1>1. TypeOK /\ RunInv(r) /\ run[r] \in RunType
    BY TypeParts DEF AdmissionInv
  <1>2. Step(r)
    <2>1. ASSUME NEW p \in Runs, Start(p) \/ Approve(p) \/ Interrupt(p) \/ Rerun(p) PROVE FALSE
      <3>1. run[p] \in RunType /\ run \in [Runs -> RunType]
        BY <1>1, TypeParts
      <3>2. \A q \in Runs : q # p => run'[q] = run[q]
        BY <2>1, <3>1 DEF Start, Approve, Interrupt, Rerun
      <3>3. run'[p].st # "done"
        <4>1. CASE Start(p) \/ Approve(p)
          BY <3>1, <4>1 DEF Start, Approve, RunType
        <4>2. CASE Interrupt(p)
          BY <3>1, <4>2 DEF Interrupt, Failed, RunType
        <4>3. CASE Rerun(p)
          <5>1. run'[p].st = IF run[p].evidence = NULL THEN "verify" ELSE "waiting"
            BY <3>1, <4>3 DEF Rerun, RunType
          <5> QED
            BY <5>1
        <4> QED
          BY <2>1, <4>1, <4>2, <4>3
      <3> QED
        BY <3>2, <3>3
    <2>2. ASSUME NEW p \in Runs, NEW phase, NEW file, NEW image, NEW prior,
                 Dispatch(p, phase, file, image, prior)
          PROVE  FALSE
      <3>1. run \in [Runs -> RunType]
        BY <1>1, TypeParts
      <3>2. \A q \in Runs : q # p => run'[q] = run[q]
        BY <2>2, <3>1 DEF Dispatch
      <3>3. run'[p].st # "done"
        BY <2>2, <3>1 DEF Dispatch, Idle
      <3> QED
        BY <3>2, <3>3
    <2>3. ASSUME NEW p \in Runs, Step(p) PROVE p = r
      BY <1>1, <2>3, StepOutcome, OneRun
    <2>4. run' # run
      OBVIOUS
    <2> QED
      BY <2>1, <2>2, <2>3, <2>4 DEF Next, Merge, Conclude, Build, PublishFile, Reconclude, Configure, World
  <1>3. PICK new \in RunType :
          /\ run' = [run EXCEPT ![r] = new]
          /\ \/ new = Failed(r)
             \/ new = Emitted(r) /\ Reading(r)[run[r].pc] = "emit"
             \/ \E step : /\ step = Reading(r)[run[r].pc] /\ step # "emit" /\ StepOK(r, step)
                          /\ new = Noted(r, step)
    BY <1>1, <1>2, StepOutcome
  <1>4. run'[r] = new /\ \A q \in Runs : q # r => run'[q] = run[q]
    BY <1>1, <1>3, OneRun
  <1>5. new.st # "done" \/ (new = Emitted(r) /\ Reading(r)[run[r].pc] = "emit")
    <2>1. Failed(r).st # "done" /\ \A step : Noted(r, step).st = run[r].st
      BY <1>1 DEF Failed, Noted, RunType
    <2> QED
      BY <1>3, <2>1
  <1>6. new = Emitted(r) /\ Reading(r)[run[r].pc] = "emit"
    BY <1>4, <1>5
  <1>7. PriorOK(r)
    BY <1>1, <1>2, <1>6, StepOutcome, EmitKnows
  <1>8. /\ run'[r].phase = run[r].phase /\ run'[r].file = run[r].file
        /\ run'[r].source = run[r].source /\ run'[r].image = run[r].image
    BY <1>1, <1>4, <1>6 DEF Emitted, RunType
  <1>9. run[r].st # "idle"
    BY <1>2 DEF Step
  <1> QED
    BY <1>4, <1>7, <1>8, <1>9 DEF Subject

\* The runs, with all their reads, failures and re-runs, implement the rollout
\* specification: a phase is admitted only for the subject that the phase before
\* was admitted for.
THEOREM RolloutIsImplemented == Spec => RolloutRefined
  <1> DEFINE Done == {q \in Runs : run[q].st = "done"}
             admitted == {<<run[r].phase, Subject(r)>> : r \in Done}
  <1>1. Init => R!Init
    <2> SUFFICES ASSUME Init PROVE admitted = {}
      BY DEF R!Init
    <2>1. Done = {}
      BY DEF Init, Idle
    <2> QED
      BY <2>1
  <1>2. ASSUME AdmissionInv, [Next]_vars PROVE [R!Next]_admitted
    <2>1. Kept /\ TypeOK
      BY <1>2, NextKeeps DEF AdmissionInv
    <2>2. Done \subseteq Done'
      BY <2>1 DEF Kept
    <2>3. CASE Done' = Done
      <3>1. \A r \in Done : run'[r] = run[r] /\ Subject(r)' = Subject(r)
        BY <2>1 DEF Kept, Subject
      <3>2. admitted' = {<<run'[r].phase, Subject(r)'>> : r \in Done'}
        OBVIOUS
      <3>3. admitted' = admitted
        BY <2>3, <3>1, <3>2
      <3> QED
        BY <3>3
    <2>4. CASE Done' # Done
      <3>1. PICK r \in Runs : run[r].st # "done" /\ run'[r].st = "done"
        BY <2>2, <2>4
      <3>2. Next
        BY <1>2, <3>1 DEF vars
      <3>3. /\ PriorOK(r) /\ run'[r].phase = run[r].phase /\ Subject(r)' = Subject(r)
            /\ run[r].st # "idle"
            /\ \A q \in Runs : q # r => run'[q] = run[q]
        BY <1>2, <3>1, <3>2, FinishedHasPrior
      <3>4. Done' = Done \cup {r}
        BY <3>1, <3>3
      <3>5. \A q \in Done : run'[q] = run[q] /\ Subject(q)' = Subject(q)
        BY <2>1 DEF Kept, Subject
      <3>6. PICK e : e = <<run[r].phase, Subject(r)>>
        OBVIOUS
      <3>7. admitted' = {<<run'[q].phase, Subject(q)'>> : q \in Done'}
        OBVIOUS
      <3>8. admitted' = admitted \cup {e}
        BY <3>3, <3>4, <3>5, <3>6, <3>7
      <3>9. run[r].phase \in Phases
        BY <2>1, TypeParts DEF RunType
      <3>10. run[r].phase = "plan" \/ <<PREVIOUS_PHASE[run[r].phase], Subject(r)>> \in admitted
        <4>1. CASE run[r].phase # "plan"
          <5>1. PICK p : p = run[r].prior
            OBVIOUS
          <5>2. p \in Runs
            BY <1>2, <3>3, <4>1, <5>1 DEF AdmissionInv, RunInv, Sourced
          <5>3. p \in Done /\ run[p].phase = PREVIOUS_PHASE[run[r].phase] /\ Subject(p) = Subject(r)
            BY <3>3, <4>1, <5>1, <5>2 DEF PriorOK
          <5> QED
            BY <5>3
        <4> QED
          BY <4>1
      <3> HIDE DEF admitted
      <3>11. e[1] = run[r].phase /\ e[2] = Subject(r) /\ e \in admitted'
        BY <3>6, <3>8
      <3>12. R!Next
        BY <3>8, <3>9, <3>10, <3>11, <3>6
           DEF admitted, R!Next, R!Admit, R!Phases, R!Previous, Phases, PREVIOUS_PHASE
      <3> QED
        BY <3>12
    <2> QED
      BY <2>3, <2>4
  <1> QED
    BY <1>1, <1>2, AdmissionIsInvariant, PTL DEF Spec, RolloutRefined, R!Spec
=============================================================================
