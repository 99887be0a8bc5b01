--------------------------- MODULE ContractCheck ---------------------------
(***************************************************************************)
(* The required check "orchestrator-contract":                             *)
(* .codestra/validate-production-orchestrator-contract.py decides from the *)
(* files of one commit whether any enabled workflow job could change the   *)
(* runtime.  The files are a record `t`; every operator below is a         *)
(* function of it, and Inert at the end is the reference the scan is       *)
(* measured against.                                                       *)
(*                                                                         *)
(*   t.contract   the JSON contract is the one the catalogue demands       *)
(*   t.blockers   the contract still lists blockers                        *)
(*   t.intent     the release-intent workflow: exact, prechecks, rechecks, *)
(*                steps                                                    *)
(*   t.validator  the release validator: its fingerprint, the reads its    *)
(*                two entry points make, in order, and what it does with   *)
(*                callables: ops and aliases, already resolved             *)
(*   t.signer     the jobs of the image workflow, see Signer               *)
(*   t.workflows  name -> [pin, config, jobs, native, refs]                *)
(*   t.scripts    name -> [kind, pin, does, loads, uses, calls, defs]: of a *)
(*                Python file, what all of it does, what importing it does, *)
(*                the names called outside of functions, and the functions *)
(*                (and classes) it defines: name -> [does, calls].  A call *)
(*                of a package manager ("pkg") or of a test runner         *)
(*                ("tests") is an entry too; so is a call that is approved *)
(*                as read-only, "held" while the script's hash and its     *)
(*                arguments are the approved ones                          *)
(*   t.generated  the script targets that are approved although only a     *)
(*                build creates them                                       *)
(*   t.package    the scripts of package.json: name -> entry of t.scripts  *)
(*   t.testpaths  what test discovery without arguments finds              *)
(*   t.tracked    the tracked Python sources are the approved ones         *)
(*                                                                         *)
(* A text is the set of the kinds of commands in it, those of nested       *)
(* payloads included; splitting text into commands is left out.  j.does and *)
(* j.runs of a job are of its steps but those whose text is approved as     *)
(* offline; j.offline is "none" without such a step, "bound" if it has      *)
(* nothing but that text, and "altered" otherwise.                          *)
(***************************************************************************)
EXTENDS Naturals, FiniteSets, Signer, SourceBinding

CONSTANT NULL

\* Commands that operate a runtime: remote shells, cluster, container and
\* infrastructure tools, task runners, deployment scripts.
ToolCommands == {"tool"}

\* A client of an API asked for anything but a read.
ClientCommands == {"client"}

\* What parsing cannot resolve: a computed executable or operand, an alias, an
\* interpreter fed from a pipe, a changed start-up environment.
ComputedCommands == {"computed"}

ShellMutates(does) == does \cap (ToolCommands \cup ClientCommands \cup ComputedCommands) # {}

\* A program may start processes, send requests or compute what it calls.
PythonMutates(does) == does \cap {"process", "request", "computed"} # {}

JavaScriptMutates(does) == does \cap {"process", "request", "computed"} # {}

\* The modules of the repository that a Python file imports; others are not read.
Imports(t, x) == t.scripts[x].uses \cap DOMAIN t.scripts

\* What importing a module does, and what the functions of these names do.
Body(t, x, names) ==
  LET f == t.scripts[x]
  IN  f.loads \cup UNION {f.defs[g].does : g \in names \cap DOMAIN f.defs}

\* The names that are called there.
Called(t, x, names) ==
  LET f == t.scripts[x]
  IN  f.calls \cup UNION {f.defs[g].calls : g \in names \cap DOMAIN f.defs}

CalledAnywhere(t, x) == Called(t, x, DOMAIN t.scripts[x].defs)

Names(t) == UNION {CalledAnywhere(t, x) : x \in DOMAIN t.scripts}

\* A plausible mistake: only the modules a script itself imports are scanned.
DirectImportMutates(t, s, path, invoked) == s \notin path /\ PythonMutates(Body(t, s, invoked))

\* A Python module is scanned for what importing it does and for its functions
\* whose names the importing one calls, and so is every module it imports, for
\* the names called there; one already on the path is not scanned again.
ImportMutates(t, s, path, invoked) ==
  LET Scan[seen \in SUBSET DOMAIN t.scripts] ==
        [e \in (DOMAIN t.scripts) \X (SUBSET Names(t)) |->
           /\ e[1] \notin seen
           /\ \/ PythonMutates(Body(t, e[1], e[2]))
              \/ \E y \in Imports(t, e[1]) :
                   Scan[seen \cup {e[1]}][<<y, Called(t, e[1], e[2])>>]]
  IN  Scan[path][<<s, invoked>>]

\* The scripts of package.json that a command runs, its hooks among them; what
\* cannot be resolved is not an entry of t.scripts, and so counts as mutating.
PackagePayloads(t, command) ==
  LET selected == CASE command = "install" -> {"preinstall", "install", "postinstall", "prepublish", "prepare"}
                    [] command = "pack"    -> {"prepack", "prepare", "postpack"}
                    [] command = "test"    -> {"pretest", "test", "posttest"}
  IN  IF command = "test" /\ command \notin DOMAIN t.package
      THEN {NULL} ELSE {t.package[n] : n \in selected \cap DOMAIN t.package}

\* The files a test runner collects: those its arguments name or, without any,
\* those of the configured test paths; to find none is unresolved.
TestTargets(t, named) ==
  IF named # {} THEN named ELSE IF t.testpaths # {} THEN t.testpaths ELSE {NULL}

Calls(t, s) ==
  LET f == t.scripts[s]
  IN  CASE f.kind = "sh"    -> f.uses \ t.generated
        [] f.kind = "py"    -> Imports(t, s)
        [] f.kind = "pkg"   -> UNION {PackagePayloads(t, c) : c \in f.uses}
        [] f.kind = "tests" -> TestTargets(t, f.uses)
        [] OTHER            -> f.uses

\* Default discovery over exactly the approved sources is accepted unscanned.
DiscoveryApproved(t, s) == t.scripts[s].kind = "tests" /\ t.scripts[s].uses = {} /\ t.tracked

\* The modules a JavaScript file imports, without those on the path already.
JavaScriptImports(t, x, path) == t.scripts[x].uses \ path

\* A script a job runs.  A cycle of calls, an unknown suffix and a reviewed
\* script that drifted count as mutating; a reviewed one is not opened, unless
\* it is reviewed for itself only ("scanned").
ScriptMutates(t, s) ==
  LET Scan[seen \in SUBSET DOMAIN t.scripts] ==
        [x \in DOMAIN t.scripts |->
           LET f    == t.scripts[x]
               path == seen \cup {x}
           IN  \/ x \in seen
               \/ f.kind \notin {"sh", "py", "js", "pkg", "tests"}
               \/ f.pin = "drifted"
               \/ f.pin # "held" /\ Calls(t, x) \ DOMAIN t.scripts # {}
               \/ f.pin = "scanned" /\ \E y \in Calls(t, x) : Scan[{}][y]
               \/ f.pin = "none" /\
                    \/ f.kind = "sh" /\ (ShellMutates(f.does) \/ \E y \in Calls(t, x) : Scan[path][y])
                    \/ /\ f.kind = "py"
                       /\ \/ PythonMutates(f.does)
                          \/ \E y \in Imports(t, x) : ImportMutates(t, y, path, CalledAnywhere(t, x))
                    \/ /\ f.kind = "js"
                       /\ \/ JavaScriptMutates(f.does)
                          \/ \E y \in JavaScriptImports(t, x, path) : Scan[path][y]
                    \/ f.kind = "pkg" /\ \E y \in Calls(t, x) : Scan[path][y]
                    \/ f.kind = "tests" /\ ~DiscoveryApproved(t, x) /\ \E y \in Calls(t, x) : Scan[path][y]]
  IN  s \notin DOMAIN t.scripts \/ Scan[{}][s]

ScriptsMutate(t, j) == \E s \in j.runs \ t.generated : ScriptMutates(t, s)

\* An action a step uses: the known read-only ones are "safe"; a local, a
\* computed or an unknown one, or a script that writes, is a runtime action.
ActionMutates(j) == j.act \in {"local", "unsafe"}

\* What the steps of a job outside a reviewed workflow amount to: a container
\* or service, an action, the commands of a run block and the scripts.
StepsMutate(t, w, j) ==
  \/ j.container /\ ~t.workflows[w].config
  \/ ActionMutates(j)
  \/ j.offline = "altered"
  \/ ShellMutates(j.does)
  \/ ScriptsMutate(t, j)

\* A job of a reviewed ("held") workflow is scanned only for the scripts and
\* local actions it runs, any other job for everything.
JobMutates(t, w, j) ==
  IF t.workflows[w].pin = "held"
  THEN ScriptsMutate(t, j) \/ j.act = "local"
  ELSE StepsMutate(t, w, j)

\* A workflow that drifted from its reviewed text mutates; a job that calls a
\* workflow mutates if that one does, is not in the repository or is on the
\* path of calls already.
WorkflowMutates(t, w, path) ==
  LET Scan[seen \in SUBSET DOMAIN t.workflows] ==
        [v \in DOMAIN t.workflows |->
           \/ t.workflows[v].pin = "drifted"
           \/ \E j \in t.workflows[v].jobs :
                \/ JobMutates(t, v, j)
                \/ /\ j.calls # NULL
                   /\ \/ j.calls \notin DOMAIN t.workflows
                      \/ j.calls \in seen
                      \/ Scan[seen \cup {j.calls}][j.calls]]
  IN  Scan[path][w]

CallMutates(t, j) ==
  /\ j.calls # NULL
  /\ \/ j.calls \notin DOMAIN t.workflows
     \/ WorkflowMutates(t, j.calls, {j.calls})

\* Every mutating job must carry the marker and the literal condition false;
\* a workflow found mutating must have such a job.
MutatingJobsDisabled(t, w) ==
  LET mutating == {j \in t.workflows[w].jobs : CallMutates(t, j) \/ JobMutates(t, w, j)}
  IN  mutating # {} /\ \A j \in mutating : j.marked /\ j.off

\* References of a workflow outside the repository name content.
ReferencesPinned(w) == w.refs \subseteq Immutable \cup {"local"}

\* An alias of a callable stands for the callable.
Callee(v, o) == IF o.callee \in DOMAIN v.aliases THEN v.aliases[o.callee] ELSE o.callee

Restricted == {"subprocess", "launcher", "urlopen", "Request"}

\* A restricted callable is called by name, never stored, passed or returned.
NoneEscapes(v) == \A o \in v.ops : o.form = "value" => Callee(v, o) \notin Restricted

\* Of the process interfaces only one is open, and only for commands that read
\* evidence, without a shell.
EvidenceCommands(v) ==
  \A o \in v.ops : o.form = "call" /\ Callee(v, o) = "subprocess" => o.arg = "evidence"

\* Requests are read-only ones of the evidence clients.
EvidenceRequests(v) ==
  \A o \in v.ops : o.form = "call" /\ Callee(v, o) = "Request" => o.arg = "evidence"

\* Nothing outside the approved modules is imported ("dynamic" too), computes
\* what is called, changes how commands are found, or changes a command or
\* request after it was accepted.
NothingDynamic(v) ==
  \A o \in v.ops :
    o.form = "call" => Callee(v, o) \notin {"launcher", "urlopen", "dynamic", "environ", "rebind"}

OperationsValid(v) ==
  NoneEscapes(v) /\ EvidenceCommands(v) /\ EvidenceRequests(v) /\ NothingDynamic(v)

\* In the release-intent workflow a command outside a short list of readers is
\* a contact with a runtime.
RuntimeCommand(does) == does \ {"read"} # {}

\* The only script it may run is the release validator.
ScriptContacts(t, s) == s # "validator" \/ ~OperationsValid(t.validator)

StepContacts(t, s) ==
  /\ ~s.install
  /\ \/ s.shell # "sh"
     \/ RuntimeCommand(s.does)
     \/ \E x \in s.runs : ScriptContacts(t, x)

\* The release-intent workflow is the reviewed text, reads the head before it
\* checks out, validates again behind the environment, contacts no runtime.
IntentValid(t) ==
  /\ t.intent.exact /\ t.intent.prechecks /\ t.intent.rechecks
  /\ \A s \in t.intent.steps : ~StepContacts(t, s)

\* A plausible mistake: the reads are counted, their order is not looked at.
EnoughReads(q) ==
  /\ Cardinality({i \in DOMAIN q : q[i] = "head"}) >= 3
  /\ \E i \in DOMAIN q : q[i] = "prior"

\* An entry point of the release validator reads both heads at least three
\* times, the last two pairs sandwiched after everything slow.
GateRechecks(q) ==
  LET gates      == {i \in DOMAIN q : q[i] = "head"}
      candidates == {i \in DOMAIN q : q[i] = "candidate"}
      slow       == {i \in DOMAIN q : q[i] \in {"supply", "prior", "preapproval"}}
  IN  /\ Cardinality(gates) >= 3 /\ Cardinality(candidates) >= 3
      /\ \E i \in DOMAIN q : q[i] = "prior"
      /\ \E c1, c2 \in candidates, g1, g2 \in gates :
           /\ c1 < g1 /\ g1 < c2 /\ c2 < g2
           /\ \A g \in gates : g <= g1 \/ g = g2
           /\ \A c \in candidates : c <= c1 \/ c = c2
           /\ \A s \in slow : s < c1

\* The release validator carries the reviewed fingerprint and the re-reads,
\* and touches nothing but evidence.
ValidatorValid(t) ==
  /\ t.validator.reviewed /\ OperationsValid(t.validator)
  /\ GateRechecks(t.validator.verify) /\ GateRechecks(t.validator.recheck)

\* The whole check of one commit.
ValidTree(t) ==
  /\ t.contract
  /\ SignerReachable(t.signer)
  /\ \A w \in DOMAIN t.workflows : t.workflows[w].native => ReferencesPinned(t.workflows[w])
  /\ \A w \in DOMAIN t.workflows :
       WorkflowMutates(t, w, {}) => MutatingJobsDisabled(t, w)
  /\ IntentValid(t)
  /\ ValidatorValid(t)

---------------------------------------------------------------------------
\* Reference.  What S leads to along next.
Reachable(S, next) ==
  LET Reach[n \in 0 .. Cardinality(DOMAIN next)] ==
        IF n = 0 THEN S
        ELSE LET before == Reach[n - 1]
             IN  before \cup UNION {next[x] : x \in before \cap DOMAIN next}
  IN  Reach[Cardinality(DOMAIN next)]

Harmless(does) == does \subseteq {"read"}

Reviewed(t, s) == t.scripts[s].pin \in {"held", "scanned"} \/ (t.scripts[s].kind = "py" /\ t.tracked)

\* The scripts that running S executes; a reviewed one is taken as a whole.
Executed(t, S) ==
  Reachable(S, [x \in DOMAIN t.scripts |->
    IF t.scripts[x].pin = "held" \/ t.scripts[x].kind = "py" THEN {} ELSE Calls(t, x)])

\* The Python scripts among them that nobody reviewed
Programs(t, S) == {x \in S \cap DOMAIN t.scripts : t.scripts[x].kind = "py" /\ ~Reviewed(t, x)}

\* The modules that the executed Python scripts import, directly or not.
Imported(t, S) ==
  Reachable(UNION {Imports(t, x) : x \in Programs(t, S)}, [x \in DOMAIN t.scripts |-> Imports(t, x)])

\* No unreviewed code that job `j` of workflow `w` executes does anything but
\* read: its scripts, what their imports do while they are imported, directly or
\* not, and the functions that a script calls by name in a module it imports.
JobInert(t, w, j) ==
  LET run == Executed(t, j.runs \ t.generated)
      imp == Imported(t, run)
  IN  /\ run \cup imp \subseteq DOMAIN t.scripts
      /\ \A x \in run : Reviewed(t, x) \/ Harmless(t.scripts[x].does)
      /\ \A x \in imp : t.tracked \/ Harmless(t.scripts[x].loads)
      /\ \A x \in Programs(t, run) : \A y \in Imports(t, x) : Harmless(Body(t, y, CalledAnywhere(t, x)))
      /\ j.calls = NULL \/ j.calls \in DOMAIN t.workflows
      /\ j.act # "local"
      /\ \/ t.workflows[w].pin = "held"
         \/ /\ Harmless(j.does) /\ j.act # "unsafe" /\ j.offline # "altered"
            /\ j.container => t.workflows[w].config

\* Every enabled job of every workflow of the commit is inert.
Inert(t) ==
  \A w \in DOMAIN t.workflows : \A j \in t.workflows[w].jobs : j.off \/ JobInert(t, w, j)

\* The steps of the release-intent workflow read, and all that the validator
\* executes, under whatever name, are reads of evidence.
IntentInert(t) ==
  /\ \A s \in t.intent.steps :
       s.install \/ (s.shell = "sh" /\ Harmless(s.does) /\ s.runs \subseteq {"validator"})
  /\ \A o \in t.validator.ops :
       \/ Callee(t.validator, o) = "local"
       \/ /\ Callee(t.validator, o) \in {"subprocess", "Request"}
          /\ o.form = "call" /\ o.arg = "evidence"
============================================================================
