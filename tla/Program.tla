------------------------------- MODULE Program -------------------------------
(***************************************************************************)
(* cli/src/Program.ts: runs of a program, each of which parses a command   *)
(* line, has a command do its work and renders what came of it.  A command *)
(* may have the program run other command lines before it returns          *)
(* (Command.runProgram()), several at once, and awaits them together.      *)
(*                                                                         *)
(* A step goes from one await to the next.  What a command line asks for   *)
(* is one of Kinds.  A failure is what was thrown: "exit0" and "exit2" an  *)
(* ExitError of that code, "error" any other error, "nested" the CLIError  *)
(* of a render that found another going on, "value" what is not an Error.  *)
(***************************************************************************)
EXTENDS Integers, FiniteSets

CONSTANTS
  Runs,        \* the calls of run()
  NoRun        \* the parent of a run that no command asked for

ASSUME ProgramAssumption == NoRun \notin Runs

Kinds == {"command", "help", "index", "version", "invalid", "unknown"}
Thrown == {"error", "exit0", "exit2", "value"}

VARIABLES
  rendering,     \* program.rendering
  phase,         \* where each run is
  parent,        \* the run whose command asked for it
  kind,          \* what its command line asks for
  failure,       \* what it caught last
  answer,        \* [how, code]: how the promise of run() settled
  told           \* what onAfterRun listeners were given

vars == <<rendering, phase, parent, kind, failure, answer, told>>

Pending == [how |-> "pending", code |-> -1]
Resolved(code) == [how |-> "resolved", code |-> code]
Rejected == [how |-> "rejected", code |-> -1]

Init ==
  /\ rendering = FALSE
  /\ phase = [r \in Runs |-> "none"]
  /\ parent = [r \in Runs |-> NoRun]
  /\ kind = [r \in Runs |-> "command"]
  /\ failure = [r \in Runs |-> "none"]
  /\ answer = [r \in Runs |-> Pending]
  /\ told = [r \in Runs |-> "nothing"]

Children(r) == {c \in Runs : parent[c] = r}
Going(r) == phase[r] \notin {"none", "settled"}
GoTo(r, p) == phase' = [phase EXCEPT ![r] = p]
Unchanging == UNCHANGED <<parent, kind>>

-----------------------------------------------------------------------------
(* The end of a run.                                                       *)

Settle(r, a, listeners) ==
  /\ GoTo(r, "settled")
  /\ answer' = [answer EXCEPT ![r] = a]
  /\ told' = [told EXCEPT ![r] = listeners]

\* The bug of a nested run that keeps its failure to itself.
ConcludeQuietly(r, e, code) ==
  /\ failure' = [failure EXCEPT ![r] = e]
  /\ Settle(r, Resolved(code), "failure")

\* The listeners are told of the failure; a nested run throws it again.
Conclude(r, e, code) ==
  /\ failure' = [failure EXCEPT ![r] = e]
  /\ Settle(r, IF parent[r] = NoRun THEN Resolved(code) ELSE Rejected, "failure")

\* The catch block of run(): what is no Error is forgotten, and exit(0) is no failure.
Catch(r, e) ==
  CASE e = "value" -> failure' = [failure EXCEPT ![r] = e] /\ Settle(r, Resolved(0), "nothing")
    [] e = "exit0" -> Conclude(r, e, 0)
    [] OTHER       -> /\ failure' = [failure EXCEPT ![r] = e]
                      /\ GoTo(r, "caught")
                      /\ UNCHANGED <<answer, told>>

Succeed(r) == Settle(r, Resolved(0), "success") /\ UNCHANGED failure

-----------------------------------------------------------------------------
(* renderElement(): one at a time, and whoever comes second is refused.    *)

\* The bug of a check within the try block: the flag goes with the refusal.
RenderWithin(r, p) ==
  IF rendering THEN rendering' = FALSE /\ Catch(r, "nested")
  ELSE rendering' = TRUE /\ GoTo(r, p) /\ UNCHANGED <<failure, answer, told>>

Render(r, p) ==
  IF rendering THEN UNCHANGED rendering /\ Catch(r, "nested")
  ELSE rendering' = TRUE /\ GoTo(r, p) /\ UNCHANGED <<failure, answer, told>>

RenderEnds(r) ==
  /\ phase[r] = "rendering"
  /\ rendering' = FALSE
  /\ Succeed(r)
  /\ Unchanging

\* A component calls the exit() of useProgram(), or the rendering fails.
RenderFails(r) ==
  /\ phase[r] = "rendering"
  /\ rendering' = FALSE
  /\ \E e \in {"error", "exit0", "exit2"} : Catch(r, e)
  /\ Unchanging

\* renderErrors() once react is there, from the catch block: nobody catches what it throws.
RenderFailure(r) ==
  /\ phase[r] = "caught"
  /\ IF rendering
     THEN /\ failure' = [failure EXCEPT ![r] = "nested"]
          /\ Settle(r, Rejected, "nothing")
          /\ UNCHANGED rendering
     ELSE rendering' = TRUE /\ GoTo(r, "renderingFailure") /\ UNCHANGED <<failure, answer, told>>
  /\ Unchanging

FailureEnds(r) ==
  /\ phase[r] = "renderingFailure"
  /\ rendering' = FALSE
  /\ Conclude(r, failure[r], IF failure[r] = "exit2" THEN 2 ELSE 1)
  /\ Unchanging

\* renderErrors() for a command line that does not parse, within the try block.
RenderErrors(r) ==
  /\ phase[r] = "invalid"
  /\ Render(r, "renderingErrors")
  /\ Unchanging

\* The run returns 1 and its listeners learn of no failure; nothing is thrown.
ErrorsEnd(r) ==
  /\ phase[r] = "renderingErrors"
  /\ rendering' = FALSE
  /\ Settle(r, Resolved(1), "success")
  /\ UNCHANGED failure
  /\ Unchanging

-----------------------------------------------------------------------------
(* A run up to its command.                                                *)

Begin(r, p) ==
  /\ phase[r] = "none"
  /\ \E k \in Kinds : kind' = [kind EXCEPT ![r] = k]
  /\ parent' = [parent EXCEPT ![r] = p]
  /\ GoTo(r, "begun")
  /\ UNCHANGED <<rendering, failure, answer, told>>

\* The next run of the process, once the last has settled.
Run(r) ==
  /\ \A s \in Runs : Going(s) => parent[s] # NoRun
  /\ Begin(r, NoRun)

\* The bootstrap callback, or a middleware, throws; only the caller of the program has
\* a callback.
FailsEarly(r) ==
  /\ phase[r] = "begun"
  /\ \/ parent[r] = NoRun /\ \E e \in Thrown : Catch(r, e)
     \/ kind[r] \notin {"index", "version"} /\ Catch(r, "error")
  /\ UNCHANGED rendering
  /\ Unchanging

ShowIndex(r) ==
  /\ phase[r] = "begun" /\ kind[r] = "index"
  /\ Render(r, "rendering")
  /\ Unchanging

ShowVersion(r) ==
  /\ phase[r] = "begun" /\ kind[r] = "version"
  /\ Succeed(r)
  /\ UNCHANGED rendering
  /\ Unchanging

\* The middlewares are through and the arguments parsed; no command has that name.
CommandNotFound(r) ==
  /\ phase[r] = "begun" /\ kind[r] = "unknown"
  /\ Catch(r, "error")
  /\ UNCHANGED rendering
  /\ Unchanging

CommandFound(r) ==
  /\ phase[r] = "begun" /\ kind[r] \in {"command", "invalid"}
  /\ GoTo(r, kind[r])
  /\ UNCHANGED <<rendering, failure, answer, told>>
  /\ Unchanging

ShowHelp(r) ==
  /\ phase[r] = "begun" /\ kind[r] = "help"
  /\ Render(r, "rendering")
  /\ Unchanging

-----------------------------------------------------------------------------
(* The command, between what it awaits.                                    *)

AllResolved(r) == \A c \in Children(r) : answer[c].how = "resolved"

RunProgram(r) ==
  /\ phase[r] = "command"
  /\ \E c \in Runs : Begin(c, r)

\* With a string, or with nothing.
ReturnText(r) ==
  /\ phase[r] = "command" /\ AllResolved(r)
  /\ Succeed(r)
  /\ UNCHANGED rendering
  /\ Unchanging

ReturnElement(r) ==
  /\ phase[r] = "command" /\ AllResolved(r)
  /\ Render(r, "rendering")
  /\ Unchanging

Throw(r) ==
  /\ phase[r] = "command" /\ AllResolved(r)
  /\ \E e \in Thrown : Catch(r, e)
  /\ UNCHANGED rendering
  /\ Unchanging

\* One of those it awaits has rejected; the others go on.
NestedThrows(r) ==
  /\ phase[r] = "command"
  /\ \E c \in Children(r) : answer[c].how = "rejected" /\ Catch(r, failure[c])
  /\ UNCHANGED rendering
  /\ Unchanging

-----------------------------------------------------------------------------
Step(r) ==
  \/ RenderEnds(r) \/ RenderFails(r)
  \/ RenderFailure(r) \/ FailureEnds(r)
  \/ RenderErrors(r) \/ ErrorsEnd(r)
  \/ FailsEarly(r) \/ ShowIndex(r) \/ ShowVersion(r) \/ ShowHelp(r)
  \/ CommandNotFound(r) \/ CommandFound(r)
  \/ ReturnText(r) \/ ReturnElement(r) \/ Throw(r) \/ NestedThrows(r)

\* No run is going on, and none is left to begin.
Finished == (\A r \in Runs : phase[r] = "settled") /\ UNCHANGED vars

Next == (\E r \in Runs : Run(r) \/ RunProgram(r) \/ Step(r)) \/ Finished

Spec == Init /\ [][Next]_vars

-----------------------------------------------------------------------------
(* Properties.                                                             *)

Renderers == {r \in Runs : phase[r] \in {"rendering", "renderingFailure", "renderingErrors"}}

\* Whatever runs at the same time and however it ends, no two renders write to the
\* terminal at once, and none is refused when there is no other.
OneRender ==
  /\ Cardinality(Renderers) <= 1
  /\ rendering <=> Renderers # {}

\* The runs that a run is made of: the least set with it and the children of each.
Tree(r) ==
  {s \in Runs : \A T \in SUBSET Runs : r \in T /\ (\A t \in T : Children(t) \subseteq T) => s \in T}

Failed(r) == failure[r] \in {"error", "exit2", "nested"}

\* A program that answers 0 had no failure in any of the runs it was made of, but for
\* command lines that do not parse, unless one of them called exit(0) or threw what is
\* no Error; and it answers, save when even its failure could not be rendered.
FailuresSurface ==
  \A r \in Runs : phase[r] = "settled" /\ parent[r] = NoRun =>
    /\ answer[r].how = "rejected" => failure[r] = "nested"
    /\ answer[r] = Resolved(0) =>
         \/ \A s \in Tree(r) : ~Failed(s)
         \/ \E s \in Tree(r) : failure[s] \in {"exit0", "value"}
    /\ Failed(r) => told[r] = "failure" \/ answer[r].how = "rejected"

=============================================================================
