------------------------------- MODULE ActionRun -------------------------------
(***************************************************************************)
(* A composite command whose steps are shell commands: Runner.Run of       *)
(* internal/action/composite, dispatch.Dispatch around it and around each  *)
(* step, and Runner.Run of internal/action/shell with the goroutine that   *)
(* turns a cancelled context into signals.                                 *)
(*                                                                         *)
(* Inputs map fields to the number of the step that submitted them, 0 for  *)
(* the inputs the command itself was started with; what a manifest, a      *)
(* template or an environment variable spoils is one failure before the    *)
(* script starts.                                                          *)
(***************************************************************************)
EXTENDS Integers, Sequences, FiniteSets

CONSTANTS
  Plans,   \* the manifests: sequences of steps
  Fields   \* the field IDs of the forms

VARIABLES
  plan,     \* Spec.Steps
  cur,      \* the step Run is at
  at,       \* where in it
  ctxDone,  \* the context is cancelled
  given,    \* the inputs of the step
  prev,     \* prevInputs
  results,  \* Result.Steps
  final,    \* how Run ended
  proc,     \* the script of the step: "none", "running", "exited"
  child,    \* a process of its own holds its pipes
  watcher,  \* watchCancel: "off", "watch" or "grace"
  killed,   \* history: the script of this step was signalled while it ran
  usage     \* the outcomes recorded by Dispatch

vars == <<plan, cur, at, ctxDone, given, prev, results, final, proc, child, watcher,
          killed, usage>>
scriptVars == <<proc, child, watcher, killed>>

Confirm == [kind |-> "confirm", from |-> "none", onFailure |-> "abort", form |-> {}]

\* from is inputs_from; a prompt step takes the shared inputs of the command when
\* there is nobody to prompt (Spec.Prompt is nil). form is that of the target.
RunStep == [kind : {"run"}, from : {"prompt", "shared", "previous", "static"},
            onFailure : {"abort", "continue"}, form : SUBSET Fields]

\* What validateStep lets through; on_failure means nothing to a confirm step.
StepKinds == {Confirm} \cup RunStep

Inputs == UNION {[D -> Nat] : D \in SUBSET Fields}
NoInputs == [f \in {} |-> 0]

PlansAssumption == Plans \subseteq Seq(StepKinds)

Init ==
  /\ plan \in Plans
  /\ cur = 1
  /\ at = "boundary"
  /\ ctxDone = FALSE
  /\ given = NoInputs /\ prev = NoInputs
  /\ results = <<>>
  /\ final = "none"
  /\ proc = "none" /\ child = FALSE /\ watcher = "off" /\ killed = FALSE
  /\ usage = <<>>

Step == plan[cur]

Cancel ==
  /\ ~ctxDone /\ at # "ended"
  /\ ctxDone' = TRUE
  /\ UNCHANGED <<plan, cur, at, given, prev, results, final, scriptVars, usage>>

\* Run returns: the outer Dispatch classifies its error.
Return(outcome, log) ==
  /\ at' = "ended"
  /\ final' = outcome
  /\ usage' = Append(log, outcome)

StepResult(outcome) == [index |-> cur, inputs |-> given, outcome |-> outcome,
                        killed |-> killed]

\* A step that failed hands nothing on.
Carried(outcome) == IF Step.kind = "run" /\ outcome = "success" THEN given ELSE prev

\* As Aborts, but on_failure is not looked at.
AbortsWhenRejected(outcome) == outcome # "success" /\ Step.kind = "confirm"

Aborts(outcome) == outcome # "success" /\ Step.onFailure = "abort"

\* The step is over; log is the usage log with its record, if it was invoked.
Settle(outcome, log) ==
  /\ results' = Append(results, StepResult(outcome))
  /\ prev' = Carried(outcome)
  /\ IF Aborts(outcome)
     THEN Return(outcome, log) /\ UNCHANGED cur
     ELSE /\ cur' = cur + 1
          /\ at' = "boundary"
          /\ usage' = log
          /\ UNCHANGED final

Boundary ==
  /\ at = "boundary"
  /\ CASE cur > Len(plan) -> Return("success", usage)
       [] cur <= Len(plan) /\ ctxDone -> Return("cancelled", usage)
       [] OTHER -> /\ at' = IF Step.kind = "confirm" THEN "await" ELSE "inputs"
                   /\ UNCHANGED <<final, usage>>
  /\ given' = NoInputs
  /\ killed' = FALSE
  /\ UNCHANGED <<plan, cur, ctxDone, prev, results, proc, child, watcher>>

\* runConfirm: the user accepts, rejects, or the context ends it.
Await ==
  /\ at = "await"
  /\ Settle("success", usage) \/ Settle("failed", usage)
  /\ UNCHANGED <<plan, ctxDone, given, scriptVars>>

Interrupted ==
  /\ at \in {"await", "inputs"}
  /\ at = "inputs" => Step.from = "prompt"
  /\ ctxDone
  /\ Settle("cancelled", usage)
  /\ UNCHANGED <<plan, ctxDone, given, scriptVars>>

FilterByFormIDs(src, form) == [f \in DOMAIN src \cap form |-> src[f]]

\* A form is answered, an inputs block of the manifest is taken as it is.
Resolved ==
  CASE Step.from = "prompt" -> [f \in Step.form |-> cur]
    [] Step.from = "shared" -> [f \in Fields |-> 0]
    [] Step.from = "previous" -> FilterByFormIDs(prev, Step.form)
    [] Step.from = "static" -> [f \in Fields |-> cur]

\* runStep: lookup, then the inputs; both may fail.
ResolveInputs ==
  /\ at = "inputs"
  /\ \/ /\ given' = Resolved
        /\ at' = "launch"
        /\ UNCHANGED <<cur, prev, results, final, usage>>
     \/ Settle("failed", usage) /\ UNCHANGED given
  /\ UNCHANGED <<plan, ctxDone, scriptVars>>

\* Dispatch: no runner, an invalid manifest, a missing variable, a template
\* that fails, or a program that does not start.
LaunchFails ==
  /\ at = "launch"
  /\ Settle("failed", Append(usage, "failed"))
  /\ UNCHANGED <<plan, ctxDone, given, scriptVars>>

\* The context is not looked at before the script starts.
Launch ==
  /\ at = "launch"
  /\ proc' = "running"
  /\ child' \in BOOLEAN
  /\ watcher' = "watch"
  /\ at' = "wait"
  /\ UNCHANGED <<plan, cur, ctxDone, given, prev, results, final, killed, usage>>

frame == <<plan, cur, at, ctxDone, given, prev, results, final, usage>>

ScriptExits ==
  /\ proc = "running"
  /\ proc' = "exited"
  /\ UNCHANGED <<frame, child, watcher, killed>>

ChildExits ==
  /\ child
  /\ child' = FALSE
  /\ UNCHANGED <<frame, proc, watcher, killed>>

\* watchCancel: SIGTERM, which the script may ignore, then SIGKILL.
Terminate ==
  /\ watcher = "watch"
  /\ ctxDone
  /\ watcher' = "grace"
  /\ killed' = (proc = "running")
  /\ UNCHANGED <<frame, proc, child>>

\* As Kill, but SIGTERM again.
KillAsked ==
  /\ watcher = "grace"
  /\ watcher' = "off"
  /\ UNCHANGED <<frame, proc, child, killed>>

Kill ==
  /\ watcher = "grace"
  /\ watcher' = "off"
  /\ proc' = IF proc = "running" THEN "exited" ELSE proc
  /\ UNCHANGED <<frame, child, killed>>

\* cmd.Wait waits for the script and for the end of both pipes.
Wait ==
  /\ at = "wait"
  /\ proc = "exited" /\ ~child
  /\ at' = "check"
  /\ watcher' = "off"
  /\ proc' = "none"
  /\ UNCHANGED <<plan, cur, ctxDone, given, prev, results, final, child, killed, usage>>

\* As Outcomes, but an exit status, of whatever cause, is no error.
OutcomesOfExit(done) ==
  IF done /\ ~killed THEN {"cancelled"} ELSE {"success", "failed"}

\* A cancelled context comes before the exit status, which is data; any other
\* error of cmd.Wait is a failure.
Outcomes(done) == IF done THEN {"cancelled"} ELSE {"success", "failed"}

Check ==
  /\ at = "check"
  /\ \E outcome \in Outcomes(ctxDone) : Settle(outcome, Append(usage, outcome))
  /\ UNCHANGED <<plan, ctxDone, given, scriptVars>>

Run == Boundary \/ Interrupted \/ Launch \/ LaunchFails \/ Wait \/ Check
       \/ (at = "inputs" /\ Step.from # "prompt" /\ ResolveInputs)

Next == Cancel \/ Run \/ Await \/ ResolveInputs \/ ScriptExits \/ ChildExits
        \/ Terminate \/ Kill

\* The program runs and a process a script leaves behind ends by itself. The
\* user need not answer, and a script need not exit.
Fairness == WF_vars(Run) /\ WF_vars(Terminate) /\ WF_vars(Kill) /\ WF_vars(ChildExits)

Spec == Init /\ [][Next]_vars /\ Fairness

-----------------------------------------------------------------------------
RunStepsBefore(j) == {k \in 1..j - 1 : plan[k].kind = "run"}

\* The results are those of the first steps, all but the last of which succeeded
\* or may fail; a chain that is a success went through all its steps; and what a
\* step takes over are fields of its own form, with the inputs of one earlier
\* step, never a mixture of several (composite/runner.go:304-361, steps.go:56-70).
\* Which one is left open: the code passes over a step that failed, where
\* runner.go:43-45 speaks of "the previous run-step's submitted inputs".
ChainKeepsItsPolicy ==
  /\ \A j \in 1..Len(results) :
       /\ results[j].index = j
       /\ j < Len(results) =>
            results[j].outcome = "success" \/ plan[j].onFailure = "continue"
       /\ plan[j].from = "previous" /\ results[j].inputs # NoInputs =>
            \E k \in RunStepsBefore(j) :
              results[j].inputs = FilterByFormIDs(results[k].inputs, plan[j].form)
  /\ final = "success" => Len(results) = Len(plan)

\* A script the program has signalled is not reported as one that came to its
\* end, to the chain or to the usage log, whatever its exit status
\* (shell/runner.go:247-261, dispatch.go:148-162).
SignalledIsCancelled ==
  /\ \A j \in 1..Len(results) : results[j].killed => results[j].outcome = "cancelled"
  /\ final = "cancelled" => ctxDone
  /\ (\E j \in 1..Len(results) : results[j].killed) =>
       \E i \in 1..Len(usage) : usage[i] = "cancelled"

\* A cancelled command ends, whatever step it is at and whether or not its
\* script takes SIGTERM (shell/runner.go:282-306).
CancelEndsChain == ctxDone ~> at = "ended"
=============================================================================
