--------------------------- MODULE SourceBinding ---------------------------
(***************************************************************************)
(* What a required check of a commit is computed from, and how the release *)
(* validator binds it before it believes the check's conclusion:           *)
(* .codestra/validate-release-intent.py compares digests of the files and  *)
(* follows every action the check's workflows use.                         *)
(*                                                                         *)
(*   t.files    path -> version, the whole tree                            *)
(*   t.pins     the digests written into the validator: closure, of the    *)
(*              whole tree, and digests, of single files                   *)
(*   t.checks   the workflows of the required checks: path -> executables  *)
(*   t.actions  path -> [image, stages, uses] of workflows and local       *)
(*              actions                                                    *)
(*                                                                         *)
(* A reference is the path of a local action, "commit" or "digest" if it   *)
(* names content, and anything else if it names what may be replaced.      *)
(* That the pins are the reviewed ones is the premise of the release       *)
(* process: their values are left out of the validator's own fingerprint.  *)
(***************************************************************************)
EXTENDS Naturals, FiniteSets, Sequences

Immutable == {"commit", "digest"}

\* The validator leaves itself out of the closure.
RELEASE_VALIDATOR_SOURCE_PATH == "validator"

SourceClosure(t) == [p \in DOMAIN t.files \ {RELEASE_VALIDATOR_SOURCE_PATH} |-> t.files[p]]

DigestHolds(t, p) ==
  /\ p \in DOMAIN t.pins.digests
  /\ p \in DOMAIN t.files
  /\ t.files[p] = t.pins.digests[p]

\* The FROM lines of a Dockerfile: each base is empty, a digest or the name
\* of an earlier stage, and there is one.
DockerfileImmutable(stages) ==
  /\ stages # <<>>
  /\ \A i \in DOMAIN stages :
       stages[i].base \in {"scratch", "digest"} \cup {stages[j].name : j \in 1 .. i - 1}

ImageImmutable(a) ==
  CASE a.image = "none"       -> TRUE
    [] a.image = "Dockerfile" -> DockerfileImmutable(a.stages)
    [] OTHER                  -> a.image = "digest"

\* The local actions all of whose references name content, through the local
\* actions they use; a cycle of local actions, or a missing one, is refused.
ReferencesImmutable(t, w) ==
  LET Follow[seen \in SUBSET DOMAIN t.actions] ==
        {x \in DOMAIN t.actions \ seen :
           /\ ImageImmutable(t.actions[x])
           /\ \A y \in t.actions[x].uses : y \in Immutable \/ y \in Follow[seen \cup {x}]}
  IN  w \in Follow[{}]

DefinitionBound(t, w) == DigestHolds(t, w) /\ ReferencesImmutable(t, w)

ExecutablesBound(t, w) == \A e \in t.checks[w] : DigestHolds(t, e)

\* The whole binding of a commit's required checks.
CheckSourcesBound(t) ==
  /\ SourceClosure(t) = t.pins.closure
  /\ \A w \in DOMAIN t.checks : DefinitionBound(t, w) /\ ExecutablesBound(t, w)

---------------------------------------------------------------------------
\* Reference.  The local actions a check runs, directly or not.
ActionsUsed(t) ==
  LET Reach[n \in 0 .. Cardinality(DOMAIN t.actions)] ==
        IF n = 0 THEN DOMAIN t.checks
        ELSE Reach[n - 1] \cup
               (DOMAIN t.actions \cap
                  UNION {t.actions[x].uses : x \in Reach[n - 1] \cap DOMAIN t.actions})
  IN  Reach[Cardinality(DOMAIN t.actions)]

\* A stage is fixed if its base is, through the earlier stages of that name.
FixedImage(a) ==
  LET Fixed[i \in 0 .. Len(a.stages)] ==
        i > 0 /\ \/ a.stages[i].base \in {"scratch", "digest"}
                 \/ \E j \in 1 .. i - 1 : a.stages[j].name = a.stages[i].base /\ Fixed[j]
  IN  a.image = "Dockerfile" => \A i \in 1 .. Len(a.stages) : Fixed[i]

\* The check is the pinned program, and nothing outside the commit that it
\* runs can be replaced: only then does its conclusion mean anything.
CheckIsPinned(t) ==
  /\ \A w \in DOMAIN t.checks : \A p \in {w} \cup t.checks[w] :
       p \in DOMAIN t.files /\ p \in DOMAIN t.pins.digests /\ t.files[p] = t.pins.digests[p]
  /\ ActionsUsed(t) \subseteq DOMAIN t.actions
  /\ \A x \in ActionsUsed(t) :
       /\ t.actions[x].image \in {"none", "Dockerfile", "digest"} /\ FixedImage(t.actions[x])
       /\ t.actions[x].uses \subseteq Immutable \cup DOMAIN t.actions
============================================================================
