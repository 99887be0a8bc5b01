------------------------------ MODULE Signer -------------------------------
(***************************************************************************)
(* The part of the required check that reads the image workflow: every     *)
(* image that a job may push must be attested afterwards by the same job,  *)
(* and nothing else may be (require_reachable_signer_workflow of           *)
(* .codestra/validate-production-orchestrator-contract.py).                *)
(*                                                                         *)
(* A job is [when, needs, steps].  A step is [publishes, attests,          *)
(* subjects, when, tolerant]: subjects are the images that its inputs      *)
(* bind, none if one of them is computed; tolerant is continue-on-error,   *)
(* or shell control flow around the command.  A condition is a disjunction *)
(* of conjunctions: a set of sets of literals.                             *)
(***************************************************************************)
EXTENDS Naturals

\* A conjunction with a constant that is false never holds; nothing else is
\* known statically.
NeverHolds(when) == \A all \in when : "false" \in all

Success == {{"success"}}
Unconditional == {Success, {{"true"}}, {{"always"}}}

Publishes(s) == s.publishes

Attests(s) == s.attests /\ ~s.tolerant /\ ~NeverHolds(s.when)

\* Pushing the attestation itself to the registry is not a publication.
Publications(j) ==
  {i \in DOMAIN j.steps :
     Publishes(j.steps[i]) /\ ~NeverHolds(j.steps[i].when) /\ ~Attests(j.steps[i])}

Attestations(j) == {i \in DOMAIN j.steps : Attests(j.steps[i])}

\* An attestation runs whenever the publication does.
Covers(a, p) == a.when \in Unconditional \/ a.when = p.when

Targets(a, p) == a.subjects \cap p.subjects # {}

Paired(j, i, k) ==
  i < k /\ Covers(j.steps[k], j.steps[i]) /\ Targets(j.steps[k], j.steps[i])

\* A job that is off, or needs one that is, or one that needs it.
Blocked(jobs, job) ==
  LET Scan[seen \in SUBSET DOMAIN jobs] ==
        [n \in DOMAIN jobs |->
           \/ n \in seen
           \/ NeverHolds(jobs[n].when)
           \/ \E m \in jobs[n].needs : m \notin DOMAIN jobs \/ Scan[seen \cup {n}][m]]
  IN  Scan[{}][job]

SubjectsOf(j, steps) == UNION {j.steps[i].subjects : i \in steps}

SignerReachable(jobs) ==
  LET live == {n \in DOMAIN jobs : ~Blocked(jobs, n) /\ Publications(jobs[n]) # {}}
  IN  /\ live # {}
      /\ \A n \in live :
           LET j == jobs[n] IN
           /\ \A i \in Publications(j) :
                /\ j.steps[i].subjects # {}
                /\ j.steps[i].subjects \subseteq
                     SubjectsOf(j, {k \in Attestations(j) : Paired(j, i, k)})
           /\ \A k \in Attestations(j) :
                /\ j.steps[k].subjects # {}
                /\ j.steps[k].subjects \subseteq
                     SubjectsOf(j, {i \in Publications(j) : Paired(j, i, k)})

---------------------------------------------------------------------------
\* Reference.  A run of the workflow gives every event a value; no step fails.
Literals(jobs) ==
  (UNION {UNION jobs[n].when : n \in DOMAIN jobs}) \cup
  (UNION {UNION {UNION s.when : s \in {jobs[n].steps[i] : i \in DOMAIN jobs[n].steps}} : n \in DOMAIN jobs})

WorkflowRuns(jobs) ==
  {v \in [Literals(jobs) -> BOOLEAN] :
     \A l \in DOMAIN v : (l = "false" => ~v[l]) /\ (l \in {"true", "success", "always"} => v[l])}

Holds(when, v) == \E all \in when : \A l \in all : v[l]

\* The jobs that a run starts: the least set closed under finished needs.
Started(jobs, v) ==
  LET closed(S) == \A n \in DOMAIN jobs :
        Holds(jobs[n].when, v) /\ jobs[n].needs \subseteq S => n \in S
  IN  {n \in DOMAIN jobs : \A S \in SUBSET DOMAIN jobs : closed(S) => n \in S}

\* In every such run each image that a step pushes is attested later in its job.
PublishedIsAttested(jobs) ==
  \A v \in WorkflowRuns(jobs) : \A n \in Started(jobs, v) :
    LET j == jobs[n]
        ran == {i \in DOMAIN j.steps : Holds(j.steps[i].when, v)}
    IN  \A i \in ran \cap Publications(j) :
          /\ j.steps[i].subjects # {}
          /\ \A x \in j.steps[i].subjects :
               \E k \in ran \cap Attestations(j) : i < k /\ x \in j.steps[k].subjects
============================================================================
