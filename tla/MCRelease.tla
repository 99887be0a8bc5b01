----------------------------- MODULE MCRelease -----------------------------
\* Eleven commits: one ready for release, one whose contract lists blockers and
\* whose approved tests start processes, one whose test tool imports a module
\* that starts processes, one whose test tool calls a function that does, two with the same fault whose check is not bound, by
\* its text or by an action two levels down, one with a harmless cycle of
\* scripts, one that attests an image on tags only, one whose validator no
\* longer reads the heads at the end, one whose validator starts a process
\* under another name, one whose release-intent workflow runs another script.
EXTENDS Release

Script(kind, does, loads, uses) ==
  [kind |-> kind, pin |-> "none", does |-> does, loads |-> loads, uses |-> uses,
   calls |-> {}, defs |-> <<>>]

\* A Python file with functions.
Program(loads, uses, calls, defs) ==
  [kind |-> "py", pin |-> "none", loads |-> loads, uses |-> uses, calls |-> calls, defs |-> defs,
   does |-> loads \cup UNION {defs[g].does : g \in DOMAIN defs}]

Function(does, calls) == [does |-> does, calls |-> calls]

Job(runs, does, off) ==
  [off |-> off, marked |-> off, container |-> FALSE, act |-> "safe", offline |-> "none", does |-> does, runs |-> runs,
   calls |-> NULL]

Push(names) ==
  [publishes |-> TRUE, attests |-> FALSE, subjects |-> names, when |-> Success, tolerant |-> FALSE]

Attest(names) == [Push(names) EXCEPT !.attests = TRUE]

\* The preview never runs, and neither does what needs it; neither attests.
Images ==
  [publish |-> [when |-> {{"main"}}, needs |-> {},
                steps |-> <<Push({"api"}), Attest({"api"}),
                            [Push({"ops"}) EXCEPT !.when = {{"tag"}, {"main", "false"}}],
                            [Attest({"ops"}) EXCEPT !.when = {{"tag"}, {"main", "false"}}]>>],
   preview |-> [when |-> {{"main", "false"}}, needs |-> {}, steps |-> <<Push({"api"})>>],
   promote |-> [when |-> Success, needs |-> {"preview"}, steps |-> <<Push({"ops"})>>]]

Files == [contract |-> 1, program |-> 1, validator |-> 1, other |-> 1]

IntentStep(does, runs) == [install |-> FALSE, shell |-> "sh", does |-> does, runs |-> runs]

Op(callee, form, arg) == [callee |-> callee, form |-> form, arg |-> arg]

Ready ==
  [contract |-> TRUE, blockers |-> FALSE,
   files |-> Files, checks |-> [contract |-> {"program"}],
   pins |-> [closure |-> [p \in DOMAIN Files \ {"validator"} |-> 1],
             digests |-> [contract |-> 1, program |-> 1]],
   actions |-> [contract |-> [image |-> "none", stages |-> <<>>, uses |-> {"commit", "setup"}],
                setup    |-> [image |-> "Dockerfile", uses |-> {"digest"},
                              stages |-> <<[base |-> "digest", name |-> "build"],
                                           [base |-> "build", name |-> "none"]>>]],
   intent |-> [exact |-> TRUE, prechecks |-> TRUE, rechecks |-> TRUE,
               steps |-> {IntentStep({"read"}, {"validator"}),
                          [IntentStep({"contact"}, {}) EXCEPT !.install = TRUE]}],
   validator |-> [reviewed |-> TRUE, verify |-> VerifySteps, recheck |-> RecheckSteps,
                  aliases |-> [client |-> "Request"],
                  ops |-> {Op("local", "value", "any"), Op("subprocess", "call", "evidence"),
                           Op("client", "call", "evidence")}],
   signer |-> Images,
   package |-> [prepare |-> "hook", test |-> "unit"], testpaths |-> {"cases"}, tracked |-> FALSE,
   generated |-> {"server"},
   scripts |->
     [test   |-> Script("sh", {"read"}, {}, {"tool", "reviewed", "npm", "pytest", "portal", "server"}),
      tool   |-> Program({"read"}, {"lib", "yaml"}, {"start"}, <<>>),
      lib    |-> Program({"read"}, {"base", "tool"}, {},
                         [start |-> Function({"read"}, {"go"}), unused |-> Function({"process"}, {})]),
      base   |-> Program({"read"}, {"lib"}, {}, [go |-> Function({"read"}, {"start"})]),
      npm    |-> Script("pkg", {}, {}, {"install", "test"}),
      hook   |-> Script("sh", {"read"}, {}, {}),
      unit   |-> Script("js", {"read"}, {}, {"unit"}),
      pytest |-> Script("tests", {}, {}, {}),
      cases  |-> Script("py", {"read"}, {"read"}, {}),
      portal |-> [Script("sh", {"computed"}, {}, {"hook"}) EXCEPT !.pin = "scanned"],
      deploy |-> Script("sh", {"tool"}, {}, {}),
      reviewed |-> [Script("sh", {"computed"}, {}, {"deploy"}) EXCEPT !.pin = "held"]],
   workflows |->
     [quality |-> [pin |-> "held", config |-> FALSE, native |-> TRUE, refs |-> {"commit", "local"},
                   jobs |-> {[Job({"tool"}, {"computed"}, FALSE) EXCEPT !.offline = "bound"]}],
      backend |-> [pin |-> "none", config |-> TRUE, native |-> TRUE, refs |-> {"commit", "digest"},
                   jobs |-> {[Job({"test"}, {"read"}, FALSE) EXCEPT !.container = TRUE],
                             [Job({"deploy"}, {"tool"}, TRUE) EXCEPT !.act = "unsafe", !.offline = "altered"]}],
      nightly |-> [pin |-> "none", config |-> FALSE, native |-> FALSE, refs |-> {"tag"},
                   jobs |-> {[Job({}, {}, FALSE) EXCEPT !.calls = "quality"]}]]]

Hidden == [Ready EXCEPT !.scripts.base = Program({"process"}, {"lib"}, {}, <<>>)]

MCTrees ==
  [ready   |-> Ready,
   blocked |-> [Ready EXCEPT !.blockers = TRUE, !.tracked = TRUE, !.scripts.cases.does = {"read", "process"}],
   hidden  |-> Hidden,
   unbound |-> [Hidden EXCEPT !.files.program = 2, !.pins.closure.program = 2],
   floating |-> [Hidden EXCEPT !.actions.setup.stages[2].base = "tag"],
   renamed |-> [Ready EXCEPT !.files.validator = 2, !.validator.aliases = [client |-> "launcher"]],
   invoking |-> [Ready EXCEPT !.scripts.tool.calls = {"start", "unused"}],
   calling |-> [Ready EXCEPT !.intent.steps = {IntentStep({"read"}, {"deploy"})}],
   cyclic  |-> [Ready EXCEPT !.scripts.deploy = Script("sh", {"read"}, {}, {"test"}),
                             !.scripts.test.uses = {"deploy"}],
   unsigned |-> [Ready EXCEPT !.signer.publish.steps[2].when = {{"tag"}}],
   hasty   |-> [Ready EXCEPT !.files.validator = 2, !.validator.recheck =
                  <<"contract">> \o Gates \o Gates \o <<"candidate", "supply", "prior", "preapproval">>
                    \o Gates \o <<"emit">>]]
============================================================================
