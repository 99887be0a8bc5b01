------------------------------ MODULE Release ------------------------------
(***************************************************************************)
(* Admission of a release: the workflow manual-release-intent.yml and the  *)
(* validator it runs twice, .codestra/validate-release-intent.py, against  *)
(* a repository, a controller repository and settings that change while it *)
(* reads them.  Nothing locks what is read: the validator reads the two    *)
(* branch heads again and again instead, and each read is one step here.   *)
(*                                                                         *)
(* Both jobs run the validator of the very commit they judge; the contract *)
(* check of that commit (module ContractCheck) is what binds its text.     *)
(***************************************************************************)
EXTENDS ContractCheck, Sequences

CONSTANTS MaxRuns,    \* workflow runs, numbered as they are dispatched
          Trees,      \* [tree name -> files of a commit, see ContractCheck]
          Successors, \* trees of the commits merged while runs are under way
          ReleaseIds,
          Revisions,  \* of a candidate file that agree in all fields below
          MaxChanges  \* changes of the world, interruptions and reruns

ASSUME ReleaseBounds ==
  /\ Successors \subseteq DOMAIN Trees
  /\ 1 \in Revisions
  /\ MaxRuns \in Nat /\ MaxChanges \in Nat

\* The reads of the release validator.
Reads == {"contract", "head", "checks", "environment", "candidate", "supply", "prior",
          "preapproval", "emit"}

\* Whatever a commit does to its own release validator, both entry points end
\* with the evidence, and the first reads the checks: nothing but the review of
\* the protected branch stands against a validator that reads no checks at all.
ASSUME ValidatorAssumption ==
  \A n \in DOMAIN Trees :
    /\ \A q \in {Trees[n].validator.verify, Trees[n].validator.recheck} :
         /\ q \in Seq(Reads)
         /\ \A i \in 1 .. Len(q) : q[i] = "emit" <=> i = Len(q)
         /\ q # <<>>
    /\ \E i \in 1 .. Len(Trees[n].validator.verify) : Trees[n].validator.verify[i] = "checks"
    /\ Trees[n].intent.prechecks \in BOOLEAN

\* The path of a local action is not one of the references that name content, and
\* the stages of a Dockerfile are a sequence.
ASSUME ActionAssumption ==
  \A n \in DOMAIN Trees :
    /\ IsFiniteSet(DOMAIN Trees[n].actions)
    /\ DOMAIN Trees[n].actions \cap Immutable = {}
    /\ \A x \in DOMAIN Trees[n].actions :
         LET s == Trees[n].actions[x].stages IN s \in Seq({s[i] : i \in DOMAIN s})

\* What the kinds of files can hold.  Importing a Python module executes part of
\* what running it does and imports Python modules only; what discovery finds is
\* Python; a call of a package manager or test runner is no code of its own.
ASSUME ScriptAssumption ==
  \A n \in DOMAIN Trees :
    LET t == Trees[n] IN
    /\ IsFiniteSet(DOMAIN t.scripts) /\ NULL \notin DOMAIN t.scripts
    /\ \A x \in t.testpaths \cap DOMAIN t.scripts : t.scripts[x].kind = "py"
    /\ \A x \in DOMAIN t.scripts :
         LET f == t.scripts[x] IN
         /\ f.pin \in {"none", "held", "scanned", "drifted"}
         /\ f.kind = "sh" => f.does \subseteq {"read", "tool", "client", "computed"}
         /\ f.kind \in {"py", "js"} => f.does \subseteq {"read", "process", "request", "computed"}
         /\ f.kind \in {"pkg", "tests"} => f.does = {}
         /\ f.kind = "py" =>
              /\ f.loads \subseteq f.does /\ \A g \in DOMAIN f.defs : f.defs[g].does \subseteq f.does
              /\ \A y \in f.uses \cap DOMAIN t.scripts : t.scripts[y].kind = "py"

\* The commands of a run block are a shell's, and only a callable can be stored,
\* passed or returned by the release validator.
ASSUME StepAssumption ==
  \A n \in DOMAIN Trees :
    LET t == Trees[n] IN
    /\ \A w \in DOMAIN t.workflows : \A j \in t.workflows[w].jobs :
         j.does \subseteq {"read", "tool", "client", "computed"}
    /\ \A o \in t.validator.ops :
         \/ o.form = "value" /\ Callee(t.validator, o) \in Restricted \cup {"local"}
         \/ /\ o.form = "call"
            /\ Callee(t.validator, o) \in Restricted \cup {"local", "dynamic", "environ", "rebind"}

ASSUME NullAssumption == NULL \notin Nat

VARIABLES main,     \* commits of main: [tree, verified, check]
          ctl,      \* protected commits of the controller: [file, green]
          images,   \* attested images: [source, build]
          settings, \* branch policy and environments still as required
          run,      \* the workflow runs
          changes

vars == <<main, ctl, images, settings, run, changes>>

Runs == 1 .. MaxRuns

Phases == {"plan", "staging", "canary", "production"}
PREVIOUS_PHASE == [staging |-> "plan", canary |-> "staging", production |-> "canary"]
Settings == {"checks", "environment"}

Image == [source : 1 .. MaxChanges + 1, build : 0 .. MaxChanges + 1]
File == [release : ReleaseIds, source : 1 .. MaxChanges + 1, image : Image, previous : Image,
         rev : Revisions]

\* The files of the commit a run was dispatched for.
Tree(i) == Trees[main[i].tree]

\* validate_repository_gates: three reads.  The controller's candidate, the
\* attestations and the prior evidence are one step each.
Gates == <<"head", "checks", "environment">>

\* main(): what the reviewed validator reads in the job "verify".
VerifySteps ==
  <<"contract">> \o Gates \o <<"candidate", "supply", "prior", "candidate">>
    \o Gates \o <<"candidate">> \o Gates \o <<"emit">>

\* recheck_protected_gates(): what it reads after approval.
RecheckSteps ==
  <<"contract">> \o Gates \o <<"candidate", "supply", "prior", "preapproval", "candidate">>
    \o Gates \o <<"candidate">> \o Gates \o <<"emit">>

\* What the jobs of a commit's own workflow and validator do.
Steps(t, job) ==
  IF job = "verify"
  THEN (IF t.intent.prechecks THEN <<"head">> ELSE <<>>) \o t.validator.verify
  ELSE IF t.intent.rechecks THEN t.validator.recheck ELSE <<"emit">>

Idle == [st |-> "idle", pc |-> 0, phase |-> "plan", file |-> NULL, source |-> 0, image |-> NULL,
         prior |-> NULL, read |-> NULL, evidence |-> NULL, slow |-> FALSE, joint |-> FALSE]

Active(r) == run[r].st \in {"verify", "waiting", "recheck"}

\* What a run is about: the fields the evidence of one phase hands to the next.
Subject(r) == [file |-> run[r].file, source |-> run[r].source, image |-> run[r].image]

---------------------------------------------------------------------------
\* The reads.  Each is evaluated when its step is taken.

\* The source is the head of the protected branch, and its commit verified.
HeadOK(r) == Len(main) = run[r].source /\ main[run[r].source].verified

\* The effective branch policy requires the contract's checks.
PolicyOK == "checks" \in settings

\* The workflows and files that compute the checks of the commit are the ones
\* the release validator binds by digest.
BoundSource(r) == CheckSourcesBound(Tree(run[r].source))

\* Under that policy and from that source, the latest conclusion of every
\* required check on this commit is success.
ChecksOK(r) == PolicyOK /\ BoundSource(r) /\ main[run[r].source].check = "success"

EnvironmentOK(r) == run[r].phase = "plan" \/ "environment" \in settings

\* The contract of the checkout; a protected phase tolerates no blocker.
ContractOK(r) ==
  LET t == Tree(run[r].source)
  IN  t.contract /\ (run[r].phase = "plan" \/ ~t.blockers)

\* The controller's protected head is green and its candidate file is the one
\* of the inputs; every read after the first must find the same head.
CandidateOK(r) ==
  /\ ctl[Len(ctl)].green
  /\ ctl[Len(ctl)].file = run[r].file
  /\ run[r].file.source = run[r].source
  /\ run[r].file.image = run[r].image
  /\ run[r].read \in {NULL, Len(ctl)}

\* The images differ from the rollback images; the candidate's were built
\* and attested from the source commit, the rollback's from any commit.
SupplyOK(r) ==
  /\ run[r].image # run[r].file.previous
  /\ run[r].image \in images /\ run[r].image.source = run[r].source
  /\ run[r].file.previous \in images

\* A plausible mistake: the evidence is matched by release and commit only.
PriorOfAnySubject(r) ==
  run[r].phase = "plan" \/
    LET p == run[r].prior
    IN  /\ p # r /\ run[p].st = "done" /\ run[p].phase = PREVIOUS_PHASE[run[r].phase]
        /\ run[p].file.release = run[r].file.release /\ run[p].source = run[r].source

\* Evidence of the phase before: of a completed run, for the same subject.
PriorOK(r) ==
  run[r].phase = "plan" \/
    LET p == run[r].prior
    IN  /\ p # r
        /\ run[p].st = "done"
        /\ run[p].phase = PREVIOUS_PHASE[run[r].phase]
        /\ Subject(p) = Subject(r)

\* The evidence written before approval names the controller head read now.
PreapprovalOK(r) == run[r].evidence = run[r].read

StepOK(r, step) ==
  CASE step = "head"        -> HeadOK(r)
    [] step = "contract"    -> ContractOK(r)
    [] step = "checks"      -> ChecksOK(r)
    [] step = "environment" -> EnvironmentOK(r)
    [] step = "candidate"   -> CandidateOK(r)
    [] step = "supply"      -> SupplyOK(r)
    [] step = "prior"       -> PriorOK(r)
    [] step = "preapproval" -> PreapprovalOK(r)
    [] step = "emit"        -> TRUE

---------------------------------------------------------------------------
\* The pinned program is the contract check; any other may conclude anything.
ConcludesSuccess(t) == CheckIsPinned(t) => ValidTree(t)

Running == [source |-> 1, build |-> 0]
Candidate == [source |-> 1, build |-> 1]

\* A commit whose checks concluded, its images and a candidate file for them.
Init ==
  /\ main \in {<<[tree |-> n, verified |-> TRUE, check |-> c]>> :
                 n \in DOMAIN Trees, c \in {"success", "failure"}}
  /\ main[1].check = "success" => ConcludesSuccess(Tree(1))
  /\ ctl \in {<<[file |-> [release |-> i, source |-> 1, image |-> Candidate,
                          previous |-> Running, rev |-> 1], green |-> TRUE]>> : i \in ReleaseIds}
  /\ images = {Running, Candidate}
  /\ settings = Settings
  /\ run = [r \in Runs |-> Idle]
  /\ changes = 0

\* workflow_dispatch.  The operator names the inputs; the event's commit is
\* the head of main at that moment and must equal the source input.
Dispatch(r, phase, file, image, prior) ==
  /\ run[r].st = "idle" /\ \A q \in 1 .. r - 1 : run[q].st # "idle"
  /\ phase = "plan" <=> prior = NULL
  /\ run' = [run EXCEPT ![r] = [Idle EXCEPT !.st = "queued", !.phase = phase, !.file = file,
                                !.source = Len(main), !.image = image, !.prior = prior]]
  /\ UNCHANGED <<main, ctl, images, settings, changes>>

\* The concurrency group holds one active run per phase and release.
Start(r) ==
  /\ run[r].st = "queued"
  /\ \A q \in Runs : Active(q) =>
       run[q].phase # run[r].phase \/ run[q].file.release # run[r].file.release
  /\ run' = [run EXCEPT ![r].st = "verify", ![r].pc = 1]
  /\ UNCHANGED <<main, ctl, images, settings, changes>>

\* The bookkeeping of a step that passed: the first candidate read of a job
\* fixes the controller head; the last two fields record history.
Noted(r, step) ==
  [run[r] EXCEPT !.pc = @ + 1,
                 !.read = IF step = "candidate" THEN Len(ctl) ELSE @,
                 !.slow = @ \/ step = "prior",
                 !.joint = @ \/ (/\ run[r].slow
                                 /\ Len(main) = run[r].source
                                 /\ Len(ctl) = run[r].read)]

\* The last step of a job: verify hands its evidence to the plan job, which
\* uploads it, or to the protected job, which waits for approval.
Emitted(r) ==
  IF run[r].st = "verify" /\ run[r].phase # "plan"
  THEN [run[r] EXCEPT !.st = "waiting", !.pc = 0, !.evidence = run[r].read, !.read = NULL,
                      !.slow = FALSE, !.joint = FALSE]
  ELSE [run[r] EXCEPT !.st = "done", !.pc = 0]

Failed(r) == [run[r] EXCEPT !.st = "failed", !.pc = 0, !.read = NULL, !.slow = FALSE,
                            !.joint = FALSE]

Step(r) ==
  /\ run[r].st \in {"verify", "recheck"}
  /\ LET step == Steps(Tree(run[r].source), run[r].st)[run[r].pc]
     IN  run' = [run EXCEPT ![r] =
           IF ~StepOK(r, step) THEN Failed(r)
           ELSE IF step = "emit" THEN Emitted(r)
           ELSE Noted(r, step)]
  /\ UNCHANGED <<main, ctl, images, settings, changes>>

\* The reviewer of the environment approves; the protected job starts.
Approve(r) ==
  /\ run[r].st = "waiting"
  /\ run' = [run EXCEPT ![r].st = "recheck", ![r].pc = 1]
  /\ UNCHANGED <<main, ctl, images, settings, changes>>

\* A job is cancelled, times out or its approval is refused.
Interrupt(r) ==
  /\ Active(r) /\ changes < MaxChanges
  /\ run' = [run EXCEPT ![r] = Failed(r)]
  /\ changes' = changes + 1
  /\ UNCHANGED <<main, ctl, images, settings>>

\* "Re-run failed jobs": a failed verify starts over for the same commit, a
\* failed protected job asks for approval again and keeps verify's evidence.
Rerun(r) ==
  /\ run[r].st = "failed" /\ changes < MaxChanges
  /\ \A q \in Runs : Active(q) =>
       run[q].phase # run[r].phase \/ run[q].file.release # run[r].file.release
  /\ run' = [run EXCEPT
       ![r].st = IF run[r].evidence = NULL THEN "verify" ELSE "waiting",
       ![r].pc = IF run[r].evidence = NULL THEN 1 ELSE 0]
  /\ changes' = changes + 1
  /\ UNCHANGED <<main, ctl, images, settings>>

---------------------------------------------------------------------------
\* The world the runs read.  Each change counts against MaxChanges.

World(v) == changes < MaxChanges /\ changes' = changes + 1 /\ UNCHANGED run /\ UNCHANGED v

Merge(n, verified) ==
  /\ World(<<ctl, images, settings>>)
  /\ main' = Append(main, [tree |-> n, verified |-> verified, check |-> "none"])

\* The checks of a commit conclude, perhaps again.
Conclude(i, result) ==
  /\ World(<<ctl, images, settings>>)
  /\ result # main[i].check
  /\ result = "success" => ConcludesSuccess(Tree(i))
  /\ main' = [main EXCEPT ![i].check = result]

\* release-images.yml: built and attested from the head it was started on.
Build ==
  /\ World(<<main, ctl, settings>>)
  /\ PublishedIsAttested(Tree(Len(main)).signer)
  /\ images' = images \cup {[source |-> Len(main), build |-> Cardinality(images)]}

\* The controller publishes a candidate file for built images; the rollback
\* images are the running ones.
PublishFile(f) ==
  /\ World(<<main, images, settings>>)
  /\ ctl' = Append(ctl, [file |-> f, green |-> TRUE])

\* The conclusion of the controller's own checks changes.
Reconclude ==
  /\ World(<<main, images, settings>>)
  /\ ctl' = [ctl EXCEPT ![Len(ctl)].green = ~@]

\* An administrator changes the branch policy or the environments.
Configure(s) ==
  /\ World(<<main, ctl, images>>)
  /\ settings' = IF s \in settings THEN settings \ {s} ELSE settings \cup {s}

Writable == {f \in [release : ReleaseIds, source : 1 .. Len(main), image : images \ {Running},
                    previous : {Running}, rev : Revisions] : f.source = f.image.source}

Published == {ctl[i].file : i \in 1 .. Len(ctl)}

Next ==
  \/ \E r \in Runs :
       \/ \E phase \in Phases, file \in Published, image \in images \ {Running},
             prior \in (1 .. r - 1) \cup {NULL} :
            Dispatch(r, phase, file, image, prior)
       \/ Start(r) \/ Step(r) \/ Approve(r) \/ Interrupt(r) \/ Rerun(r)
  \/ \E n \in Successors, verified \in BOOLEAN : Merge(n, verified)
  \/ \E i \in 1 .. Len(main), result \in {"success", "failure"} : Conclude(i, result)
  \/ Build
  \/ \E f \in Writable : PublishFile(f)
  \/ Reconclude
  \/ \E s \in Settings : Configure(s)

Spec == Init /\ [][Next]_vars

---------------------------------------------------------------------------
\* Every variable has its shape.
TypeOK ==
  /\ main \in Seq([tree : DOMAIN Trees, verified : BOOLEAN, check : {"none", "success", "failure"}])
  /\ ctl \in Seq([file : File, green : BOOLEAN])
  /\ images \subseteq Image
  /\ settings \subseteq Settings
  /\ run \in [Runs -> [st : {"idle", "queued", "verify", "waiting", "recheck", "done", "failed"},
                       pc : Nat, phase : Phases, file : File \cup {NULL}, source : Nat,
                       image : Image \cup {NULL}, prior : Runs \cup {NULL},
                       read : Nat \cup {NULL}, evidence : Nat \cup {NULL},
                       slow : BOOLEAN, joint : BOOLEAN]]
  /\ changes \in 0 .. MaxChanges

\* Evidence is uploaded only if, at one moment after the slow validation of
\* the job that uploads it, the source was the head of main while the
\* controller head was the one whose candidate file was validated: the
\* repeated reads of main() and recheck_protected_gates() overlap, although
\* no read locks anything.
JointAfterChecks == \A r \in Runs : run[r].st = "done" => run[r].joint

\* Every enabled workflow job of an admitted commit is inert: each script it runs,
\* what happens while those import, however deep, and the functions that a script
\* calls by name in a module it imports itself; its release-intent workflow only
\* reads evidence, and its image workflow attests what it pushes: the gate accepts
\* a conclusion only from the bound check, and that check's scan refuses at least
\* what the reference forbids.  Nothing is said of functions that are called across
\* further modules: a module on the path is not read again for other names.
AdmittedIsInert ==
  \A r \in Runs : run[r].st = "done" =>
    LET t == Tree(run[r].source)
    IN  Inert(t) /\ IntentInert(t) /\ PublishedIsAttested(t.signer)

\* The uploaded evidence is a rollout: whatever moves between the reads, and
\* whichever job is re-run, a phase is admitted only for the very subject
\* the phase before was admitted for.
R == INSTANCE Rollout WITH
       admitted <- {<<run[r].phase, Subject(r)>> : r \in {q \in Runs : run[q].st = "done"}}

RolloutRefined == R!Spec
============================================================================
