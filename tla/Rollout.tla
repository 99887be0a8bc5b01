------------------------------ MODULE Rollout ------------------------------
(***************************************************************************)
(* What the release-intent workflow promises, without its runs, checks and *)
(* interleavings: a subject (release, source commit, candidate file,       *)
(* images, rollback images) is admitted to a phase only after that very    *)
(* subject was admitted to the phase before it.                            *)
(***************************************************************************)
VARIABLE admitted

Phases == {"plan", "staging", "canary", "production"}

\* PREVIOUS_PHASE of the release validator.
Previous == [staging |-> "plan", canary |-> "staging", production |-> "canary"]

Init == admitted = {}

Admit(p, s) ==
  /\ p = "plan" \/ <<Previous[p], s>> \in admitted
  /\ admitted' = admitted \cup {<<p, s>>}

Next == \E e \in admitted' : e[1] \in Phases /\ Admit(e[1], e[2])

Spec == Init /\ [][Next]_admitted
============================================================================
