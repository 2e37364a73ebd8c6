---------------------------- MODULE ProgramProofs ----------------------------
(***************************************************************************)
(* What a program guarantees for any number of runs, nested in any way.    *)
(*                                                                         *)
(* A step belongs to one run: it moves only that run, which has not        *)
(* settled.  So the invariant is stated of each run on its own: what it    *)
(* has caught and answered in each phase (Own), and that one which has     *)
(* caught nothing and is past its command has only children that resolved  *)
(* (Family).  The runs that resolved without a failure are then closed     *)
(* under children, and so contain the tree of each of them.                *)
(***************************************************************************)
EXTENDS Program, FiniteSetTheorems, TLAPS

RenderPhases == {"rendering", "renderingFailure", "renderingErrors"}
Phases == {"none", "begun", "command", "invalid", "caught", "settled"} \cup RenderPhases
Failures == {"none", "error", "exit0", "exit2", "nested", "value"}
Answers == [how : {"pending", "resolved", "rejected"}, code : Int]

TypeOK ==
  /\ rendering \in BOOLEAN
  /\ phase \in [Runs -> Phases]
  /\ parent \in [Runs -> Runs \cup {NoRun}]
  /\ kind \in [Runs -> Kinds]
  /\ failure \in [Runs -> Failures]
  /\ answer \in [Runs -> Answers]
  /\ told \in [Runs -> {"nothing", "failure", "success"}]

\* The flag is up exactly while the one render goes on.
Single ==
  /\ \A r, s \in Renderers : r = s
  /\ rendering <=> Renderers # {}

\* What a run has caught and answered.
Own(r) ==
  /\ phase[r] \notin {"caught", "renderingFailure", "settled"} => failure[r] = "none"
  /\ phase[r] \in {"caught", "renderingFailure"} => Failed(r)
  /\ phase[r] # "settled" => answer[r].how = "pending"
  /\ phase[r] = "settled" =>
       \/ answer[r].how = "resolved" /\ ~Failed(r)
       \/ answer[r].how = "resolved" /\ parent[r] = NoRun /\ answer[r].code # 0 /\ told[r] = "failure"
       \/ /\ answer[r].how = "rejected"
          /\ failure[r] # "none"
          /\ parent[r] = NoRun => failure[r] = "nested"

\* A run that caught nothing and is not at its command has waited for its children.
Family(r) == failure[r] = "none" /\ phase[r] # "command" => AllResolved(r)

IInv ==
  /\ TypeOK
  /\ Single
  /\ \A r \in Runs : Own(r) /\ Family(r)

USE ProgramAssumption

LEMMA InitIInv == Init => IInv
<1> SUFFICES ASSUME Init PROVE IInv
  OBVIOUS
<1>1. TypeOK
  <2>1. Pending \in Answers
    BY DEF Pending, Answers
  <2>2. rendering \in BOOLEAN
    BY DEF Init
  <2> QED
    BY <2>1, <2>2 DEF Init, TypeOK, Phases, Failures, Kinds
<1>2. Single
  BY DEF Init, Single, Renderers
<1>3. \A r \in Runs : Own(r)
  BY DEF Init, Own, Pending
<1>4. \A r \in Runs : Children(r) = {}
  BY DEF Init, Children
<1> QED
  BY <1>1, <1>2, <1>3, <1>4 DEF IInv, Family, AllResolved

-----------------------------------------------------------------------------
(* How a step moves its run.                                               *)

\* The rest of the program stays as it is.
Only(r) ==
  /\ \A s \in Runs \ {r} : /\ phase'[s] = phase[s] /\ failure'[s] = failure[s]
                           /\ answer'[s] = answer[s] /\ told'[s] = told[s]
  /\ parent' = parent /\ kind' = kind

\* What the fields of a run become.
Moved(r) ==
  /\ phase' \in [Runs -> Phases]
  /\ failure' \in [Runs -> Failures]
  /\ answer' \in [Runs -> Answers]
  /\ told' \in [Runs -> {"nothing", "failure", "success"}]
  /\ Only(r)
  /\ Own(r)'

\* A run that concludes with a failure or an exit(0) gives the answer it should.
LEMMA ConcludeMoves ==
  ASSUME TypeOK, NEW r \in Runs, NEW e \in {"error", "exit0", "exit2", "nested"}, NEW code \in Int,
         Own(r), phase[r] # "settled", e = "exit0" \/ code # 0,
         Conclude(r, e, code), UNCHANGED <<parent, kind>>
  PROVE  Moved(r) /\ phase'[r] = "settled" /\ failure'[r] = e
<1>1. /\ phase' = [phase EXCEPT ![r] = "settled"]
      /\ failure' = [failure EXCEPT ![r] = e]
      /\ told' = [told EXCEPT ![r] = "failure"]
      /\ answer' = [answer EXCEPT ![r] = IF parent[r] = NoRun THEN Resolved(code) ELSE Rejected]
  BY DEF Conclude, Settle, GoTo
<1>2. Resolved(code) \in Answers /\ Rejected \in Answers
  BY DEF Resolved, Rejected, Answers
<1>3. /\ phase' \in [Runs -> Phases] /\ failure' \in [Runs -> Failures]
      /\ answer' \in [Runs -> Answers] /\ told' \in [Runs -> {"nothing", "failure", "success"}]
  BY <1>1, <1>2 DEF TypeOK, Phases, Failures
<1>4. Only(r)
  BY <1>1 DEF Only, TypeOK
<1>5. Own(r)'
  BY <1>1 DEF Own, TypeOK, Failed, Resolved, Rejected
<1> QED
  BY <1>1, <1>3, <1>4, <1>5 DEF Moved, TypeOK

\* A run whose catch block catches something has settled or will render the failure.
LEMMA CatchMoves ==
  ASSUME TypeOK, NEW r \in Runs, NEW e \in Failures \ {"none"},
         Own(r), phase[r] # "settled",
         Catch(r, e), UNCHANGED <<parent, kind>>
  PROVE  Moved(r) /\ phase'[r] \in {"settled", "caught"} /\ failure'[r] # "none"
<1>1. CASE e = "value"
  <2>1. /\ phase' = [phase EXCEPT ![r] = "settled"]
        /\ failure' = [failure EXCEPT ![r] = e]
        /\ told' = [told EXCEPT ![r] = "nothing"]
        /\ answer' = [answer EXCEPT ![r] = Resolved(0)]
    BY <1>1 DEF Catch, Settle, GoTo
  <2>2. Resolved(0) \in Answers
    BY DEF Resolved, Answers
  <2>3. Only(r)
    BY <2>1 DEF Only, TypeOK
  <2>4. Own(r)'
    BY <1>1, <2>1 DEF Own, TypeOK, Failed, Resolved
  <2> QED
    BY <1>1, <2>1, <2>2, <2>3, <2>4 DEF Moved, TypeOK, Phases
<1>2. CASE e = "exit0"
  <2>1. Conclude(r, e, 0)
    BY <1>2 DEF Catch
  <2> QED
    BY <1>2, <2>1, ConcludeMoves
<1>3. CASE e \notin {"value", "exit0"}
  <2>1. /\ phase' = [phase EXCEPT ![r] = "caught"]
        /\ failure' = [failure EXCEPT ![r] = e]
        /\ UNCHANGED <<answer, told>>
    BY <1>3 DEF Catch, GoTo
  <2>2. Only(r)
    BY <2>1 DEF Only, TypeOK
  <2>3. Own(r)'
    BY <1>3, <2>1 DEF Own, TypeOK, Failed, Failures
  <2> QED
    BY <1>3, <2>1, <2>2, <2>3 DEF Moved, TypeOK, Phases
<1> QED
  BY <1>1, <1>2, <1>3

\* A run that has caught nothing settles with an answer of its own.
LEMMA SettleMoves ==
  ASSUME TypeOK, NEW r \in Runs, NEW code \in Int,
         failure[r] = "none", Settle(r, Resolved(code), "success"), UNCHANGED <<failure, parent, kind>>
  PROVE  Moved(r) /\ phase'[r] = "settled" /\ failure'[r] = "none"
<1>1. /\ phase' = [phase EXCEPT ![r] = "settled"]
      /\ told' = [told EXCEPT ![r] = "success"]
      /\ answer' = [answer EXCEPT ![r] = Resolved(code)]
  BY DEF Settle, GoTo
<1>2. Resolved(code) \in Answers
  BY DEF Resolved, Answers
<1>3. Only(r)
  BY <1>1 DEF Only, TypeOK
<1>4. Own(r)'
  BY <1>1 DEF Own, TypeOK, Failed, Resolved
<1> QED
  BY <1>1, <1>2, <1>3, <1>4 DEF Moved, TypeOK, Phases

\* A run goes on to its next phase.
LEMMA GoToMoves ==
  ASSUME TypeOK, NEW r \in Runs, NEW p \in Phases \ {"settled"}, Own(r), phase[r] # "settled",
         p \in {"caught", "renderingFailure"} <=> phase[r] \in {"caught", "renderingFailure"},
         GoTo(r, p), UNCHANGED <<failure, answer, told, parent, kind>>
  PROVE  Moved(r) /\ phase'[r] = p /\ failure'[r] = failure[r]
<1>1. phase' = [phase EXCEPT ![r] = p]
  BY DEF GoTo
<1>2. Only(r)
  BY <1>1 DEF Only, TypeOK
<1>3. Own(r)'
  BY <1>1 DEF Own, TypeOK, Failed
<1> QED
  BY <1>1, <1>2, <1>3 DEF Moved, TypeOK

-----------------------------------------------------------------------------
(* What a step does to the whole program.                                  *)

\* A run that renders, and one that does not, before a step and after it.
Renders(p) == p \in RenderPhases

\* The flag follows the run that moves.
Flagged(r) ==
  \/ rendering' = rendering /\ ~Renders(phase[r]) /\ ~Renders(phase'[r])
  \/ ~rendering /\ rendering' = TRUE /\ ~Renders(phase[r]) /\ Renders(phase'[r])
  \/ rendering' = FALSE /\ Renders(phase[r]) /\ ~Renders(phase'[r])
  \/ rendering' = rendering /\ Renders(phase[r]) /\ Renders(phase'[r])

LEMMA FlaggedSingle ==
  ASSUME TypeOK, Single, NEW r \in Runs, Flagged(r), \A s \in Runs \ {r} : phase'[s] = phase[s]
  PROVE  Single'
<1>1. \A s \in Runs : s \in Renderers <=> Renders(phase[s])
  BY DEF Renderers, Renders, RenderPhases
<1>2. \A s \in Runs : s \in Renderers' <=> Renders(phase'[s])
  BY DEF Renderers, Renders, RenderPhases
<1>3. Renderers \subseteq Runs /\ Renderers' \subseteq Runs
  BY DEF Renderers
<1>4. \A s \in Runs \ {r} : s \in Renderers' <=> s \in Renderers
  BY <1>1, <1>2
<1> QED
  BY <1>1, <1>2, <1>3, <1>4 DEF Single, Flagged

\* A step of one run keeps the invariant of all.
LEMMA MovedIInv ==
  ASSUME IInv, NEW r \in Runs, phase[r] # "settled", Moved(r), Flagged(r),
         failure'[r] = "none" /\ phase'[r] # "command" => AllResolved(r)
  PROVE  IInv'
<1>1. TypeOK
  BY DEF IInv
<1>2. rendering' \in BOOLEAN
  BY <1>1 DEF Flagged, TypeOK
<1>3. TypeOK'
  BY <1>1, <1>2 DEF TypeOK, Moved, Only
<1>4. Single'
  BY <1>1, FlaggedSingle DEF IInv, Moved, Only
<1>5. answer[r].how # "resolved"
  BY DEF IInv, Own
<1>6. \A s \in Runs : AllResolved(s) => AllResolved(s)'
  <2> SUFFICES ASSUME NEW s \in Runs, AllResolved(s), NEW c \in Runs, parent[c] = s
               PROVE  answer'[c].how = "resolved"
    BY DEF AllResolved, Children, Moved, Only
  <2>1. answer[c].how = "resolved"
    BY DEF AllResolved, Children
  <2> QED
    BY <1>5, <2>1 DEF Moved, Only
<1>7. ASSUME NEW s \in Runs PROVE Own(s)'
  BY DEF IInv, Own, Failed, Moved, Only
<1>8. ASSUME NEW s \in Runs PROVE Family(s)'
  BY <1>6 DEF IInv, Family, Moved, Only
<1> QED
  BY <1>3, <1>4, <1>7, <1>8 DEF IInv

\* A run that starts has answered nothing and has no children.
LEMMA BeginIInv ==
  ASSUME IInv, NEW r \in Runs, NEW p \in Runs \cup {NoRun}, p = NoRun \/ phase[p] = "command", Begin(r, p)
  PROVE  IInv'
<1>1. /\ phase[r] = "none" /\ phase' = [phase EXCEPT ![r] = "begun"]
      /\ parent' = [parent EXCEPT ![r] = p]
      /\ UNCHANGED <<rendering, failure, answer, told>>
  BY DEF Begin, GoTo
<1>2. kind' \in [Runs -> Kinds]
  BY DEF IInv, TypeOK, Begin
<1>3. TypeOK'
  BY <1>1, <1>2 DEF IInv, TypeOK, Phases
<1>4. Renderers' = Renderers
  BY <1>1 DEF Renderers, IInv, TypeOK
<1>5. Single'
  BY <1>1, <1>4 DEF IInv, Single
<1>6. ASSUME NEW s \in Runs PROVE Own(s)'
  BY <1>1 DEF IInv, TypeOK, Own, Failed
<1>7. ASSUME NEW s \in Runs PROVE Family(s)'
  <2>1. CASE s = p
    BY <1>1, <2>1 DEF Family, IInv, TypeOK
  <2>2. CASE s # p
    <3>1. Children(s)' \subseteq Children(s)
      BY <1>1, <2>2 DEF Children, IInv, TypeOK
    <3>2. phase[s] = "command" <=> phase'[s] = "command"
      BY <1>1 DEF IInv, TypeOK
    <3> QED
      BY <1>1, <3>1, <3>2 DEF IInv, Family, AllResolved
  <2> QED
    BY <2>1, <2>2
<1> QED
  BY <1>3, <1>5, <1>6, <1>7 DEF IInv

-----------------------------------------------------------------------------
(* The steps.                                                              *)

LEMMA StepIInv ==
  ASSUME IInv, NEW r \in Runs, Step(r)
  PROVE  IInv'
<1> USE DEF Phases, RenderPhases
<1>1. TypeOK /\ Own(r) /\ Family(r)
  BY DEF IInv
<1>2. parent' = parent /\ kind' = kind
  BY DEF Step, Unchanging, RenderEnds, RenderFails, RenderFailure, FailureEnds, RenderErrors, ErrorsEnd,
         FailsEarly, ShowIndex, ShowVersion, ShowHelp, CommandNotFound, CommandFound, ReturnText,
         ReturnElement, Throw, NestedThrows
<1>3. phase[r] = "begun" => AllResolved(r) /\ failure[r] = "none"
  BY <1>1 DEF Own, Family
\* The flag is not touched, and what was thrown is caught.
<1>4. ASSUME NEW e \in Failures \ {"none"}, Catch(r, e), phase[r] # "settled",
             \/ rendering' = rendering /\ ~Renders(phase[r])
             \/ rendering' = FALSE /\ Renders(phase[r])
      PROVE  IInv'
  <2>1. Moved(r) /\ phase'[r] \in {"settled", "caught"} /\ failure'[r] # "none"
    BY <1>1, <1>2, <1>4, CatchMoves
  <2>2. Flagged(r)
    BY <1>4, <2>1 DEF Flagged, Renders
  <2> QED
    BY <1>4, <2>1, <2>2, MovedIInv
\* renderElement(), called by a run whose children have resolved.
<1>5. ASSUME NEW p \in {"rendering", "renderingErrors"}, Render(r, p),
             phase[r] \in {"begun", "command", "invalid"}, AllResolved(r)
      PROVE  IInv'
  <2>1. CASE rendering
    BY <1>4, <1>5, <2>1 DEF Render, Renders, Failures
  <2>2. CASE ~rendering
    <3>1. rendering' = TRUE /\ GoTo(r, p) /\ UNCHANGED <<failure, answer, told>>
      BY <1>5, <2>2 DEF Render
    <3>2. Moved(r) /\ phase'[r] = p
      BY <1>1, <1>2, <1>5, <3>1, GoToMoves
    <3>3. Flagged(r)
      BY <1>5, <2>2, <3>1, <3>2 DEF Flagged, Renders
    <3> QED
      BY <1>5, <3>2, <3>3, MovedIInv
  <2> QED
    BY <2>1, <2>2
\* A run whose children have resolved settles.
<1>6. ASSUME Settle(r, Resolved(0), "success") \/ Settle(r, Resolved(1), "success"), failure' = failure,
             failure[r] = "none", phase[r] # "settled", AllResolved(r),
             \/ rendering' = rendering /\ ~Renders(phase[r])
             \/ rendering' = FALSE /\ Renders(phase[r])
      PROVE  IInv'
  <2>1. Moved(r) /\ phase'[r] = "settled"
    BY <1>1, <1>2, <1>6, SettleMoves
  <2>2. Flagged(r)
    BY <1>6, <2>1 DEF Flagged, Renders
  <2> QED
    BY <1>6, <2>1, <2>2, MovedIInv
<1>7. CASE RenderEnds(r)
  <2>1. AllResolved(r) /\ failure[r] = "none"
    BY <1>1, <1>7 DEF RenderEnds, Own, Family
  <2>2. /\ Settle(r, Resolved(0), "success") /\ failure' = failure /\ rendering' = FALSE
        /\ Renders(phase[r]) /\ phase[r] # "settled"
    BY <1>7 DEF RenderEnds, Succeed, Renders
  <2> QED
    BY <1>6, <2>1, <2>2
<1>8. CASE RenderFails(r)
  BY <1>4, <1>8 DEF RenderFails, Renders, Failures
<1>9. CASE RenderFailure(r)
  <2>1. phase[r] = "caught" /\ Failed(r)
    BY <1>1, <1>9 DEF RenderFailure, Own
  <2>2. CASE rendering
    <3>1. /\ failure' = [failure EXCEPT ![r] = "nested"] /\ rendering' = rendering
          /\ phase' = [phase EXCEPT ![r] = "settled"]
          /\ answer' = [answer EXCEPT ![r] = Rejected]
          /\ told' = [told EXCEPT ![r] = "nothing"]
      BY <1>9, <2>2 DEF RenderFailure, Settle, GoTo
    <3>2. Rejected \in Answers
      BY DEF Rejected, Answers
    <3>3. Only(r)
      BY <1>1, <1>2, <3>1 DEF Only, TypeOK
    <3>4. Own(r)'
      BY <1>1, <3>1 DEF Own, TypeOK, Failed, Rejected
    <3>5. Moved(r)
      BY <1>1, <3>1, <3>2, <3>3, <3>4 DEF Moved, TypeOK, Failures
    <3>6. Flagged(r) /\ failure'[r] # "none"
      BY <1>1, <2>1, <3>1 DEF Flagged, Renders, TypeOK
    <3> QED
      BY <2>1, <3>5, <3>6, MovedIInv
  <2>3. CASE ~rendering
    <3>1. rendering' = TRUE /\ GoTo(r, "renderingFailure") /\ UNCHANGED <<failure, answer, told>>
      BY <1>9, <2>3 DEF RenderFailure
    <3>2. Moved(r) /\ phase'[r] = "renderingFailure" /\ failure'[r] = failure[r]
      BY <1>1, <1>2, <2>1, <3>1, GoToMoves
    <3>3. Flagged(r)
      BY <2>1, <2>3, <3>1, <3>2 DEF Flagged, Renders
    <3> QED
      BY <2>1, <3>2, <3>3, MovedIInv DEF Failed
  <2> QED
    BY <2>2, <2>3
<1>10. CASE FailureEnds(r)
  <2> DEFINE code == IF failure[r] = "exit2" THEN 2 ELSE 1
  <2>1. phase[r] = "renderingFailure" /\ Failed(r) /\ Conclude(r, failure[r], code) /\ rendering' = FALSE
    BY <1>1, <1>10 DEF FailureEnds, Own
  <2>2. failure[r] \in {"error", "exit2", "nested"} /\ code \in Int /\ code # 0
    BY <2>1 DEF Failed
  <2> HIDE DEF code
  <2>3. Moved(r) /\ phase'[r] = "settled" /\ failure'[r] # "none"
    BY <1>1, <1>2, <2>1, <2>2, ConcludeMoves
  <2>4. Flagged(r)
    BY <2>1, <2>3 DEF Flagged, Renders
  <2> QED
    BY <2>1, <2>3, <2>4, MovedIInv
<1>11. CASE RenderErrors(r)
  <2>1. phase[r] = "invalid" /\ AllResolved(r)
    BY <1>1, <1>11 DEF RenderErrors, Own, Family
  <2> QED
    BY <1>5, <1>11, <2>1 DEF RenderErrors
<1>12. CASE ErrorsEnd(r)
  <2>1. AllResolved(r) /\ failure[r] = "none"
    BY <1>1, <1>12 DEF ErrorsEnd, Own, Family
  <2>2. /\ Settle(r, Resolved(1), "success") /\ failure' = failure /\ rendering' = FALSE
        /\ Renders(phase[r]) /\ phase[r] # "settled"
    BY <1>12 DEF ErrorsEnd, Renders
  <2> QED
    BY <1>6, <2>1, <2>2
<1>13. CASE FailsEarly(r)
  BY <1>4, <1>13 DEF FailsEarly, Renders, Failures, Thrown
<1>14. CASE ShowIndex(r) \/ ShowHelp(r)
  BY <1>3, <1>5, <1>14 DEF ShowIndex, ShowHelp
<1>15. CASE ShowVersion(r)
  BY <1>3, <1>6, <1>15 DEF ShowVersion, Succeed, Renders
<1>16. CASE CommandNotFound(r)
  BY <1>4, <1>16 DEF CommandNotFound, Renders, Failures
<1>17. CASE CommandFound(r)
  <2>1. /\ phase[r] = "begun" /\ kind[r] \in {"command", "invalid"} /\ GoTo(r, kind[r])
        /\ UNCHANGED <<rendering, failure, answer, told>>
    BY <1>17 DEF CommandFound
  <2>2. Moved(r) /\ phase'[r] = kind[r]
    BY <1>1, <1>2, <2>1, GoToMoves
  <2>3. Flagged(r)
    BY <2>1, <2>2 DEF Flagged, Renders
  <2> QED
    BY <1>3, <2>1, <2>2, <2>3, MovedIInv
<1>18. CASE ReturnText(r)
  <2>1. phase[r] = "command" /\ failure[r] = "none"
    BY <1>1, <1>18 DEF ReturnText, Own
  <2> QED
    BY <1>6, <1>18, <2>1 DEF ReturnText, Succeed, Renders
<1>19. CASE ReturnElement(r)
  BY <1>5, <1>19 DEF ReturnElement
<1>20. CASE Throw(r)
  BY <1>4, <1>20 DEF Throw, Renders, Failures, Thrown
<1>21. CASE NestedThrows(r)
  <2>1. PICK c \in Children(r) : answer[c].how = "rejected" /\ Catch(r, failure[c])
    BY <1>21 DEF NestedThrows
  <2>2. c \in Runs /\ Own(c) /\ failure[c] \in Failures
    BY <1>1 DEF Children, IInv, TypeOK
  <2>3. failure[c] # "none"
    BY <2>1, <2>2 DEF Own
  <2> QED
    BY <1>4, <1>21, <2>1, <2>2, <2>3 DEF NestedThrows, Renders
<1> QED
  BY <1>7, <1>8, <1>9, <1>10, <1>11, <1>12, <1>13, <1>14, <1>15, <1>16, <1>17, <1>18, <1>19, <1>20, <1>21
  DEF Step

LEMMA NextIInv == IInv /\ [Next]_vars => IInv'
<1> SUFFICES ASSUME IInv, [Next]_vars PROVE IInv'
  OBVIOUS
<1>1. ASSUME NEW r \in Runs, Run(r) PROVE IInv'
  BY <1>1, BeginIInv DEF Run
<1>2. ASSUME NEW r \in Runs, RunProgram(r) PROVE IInv'
  BY <1>2, BeginIInv DEF RunProgram
<1>3. ASSUME NEW r \in Runs, Step(r) PROVE IInv'
  BY <1>3, StepIInv
<1>4. CASE Finished \/ UNCHANGED vars
  BY <1>4 DEF Finished, vars, IInv, TypeOK, Single, Renderers, Own, Failed, Family, AllResolved, Children
<1> QED
  BY <1>1, <1>2, <1>3, <1>4 DEF Next

\* The inductive invariant holds in every reachable state.
THEOREM Invariance == Spec => []IInv
BY InitIInv, NextIInv, PTL DEF Spec

-----------------------------------------------------------------------------
(* The theorems.                                                           *)

\* For any number of concurrent and nested runs, however each of them ends, no
\* two renders write to the terminal at once, and the flag that refuses a second
\* one is down again whenever there is none (Program.ts: renderElement()).
THEOREM RendersAlone == Spec => []OneRender
<1>1. IInv => OneRender
  <2> SUFFICES ASSUME IInv PROVE Cardinality(Renderers) <= 1
    BY DEF OneRender, IInv, Single
  <2>1. CASE Renderers = {}
    BY <2>1, FS_EmptySet
  <2>2. ASSUME NEW r \in Renderers PROVE Cardinality(Renderers) = 1
    <3>1. Renderers = {r}
      BY DEF IInv, Single
    <3> QED
      BY <3>1, FS_Singleton
  <2> QED
    BY <2>1, <2>2
<1> QED
  BY <1>1, Invariance, PTL

\* The runs of a tree in which nobody called exit(0) or threw what is no Error
\* resolved without a failure, if their root did.
LEMMA TreeResolved ==
  ASSUME IInv, NEW r \in Runs, answer[r].how = "resolved", ~Failed(r),
         \A s \in Tree(r) : failure[s] \notin {"exit0", "value"}
  PROVE  \A s \in Tree(r) : ~Failed(s)
<1> DEFINE good == {s \in Tree(r) : answer[s].how = "resolved" /\ ~Failed(s)}
<1>1. r \in good
  BY DEF Tree
<1>2. ASSUME NEW s \in good, NEW c \in Children(s) PROVE c \in good
  <2>1. s \in Runs /\ s \in Tree(r) /\ c \in Runs /\ parent[c] = s
    BY DEF Tree, Children
  <2>2. c \in Tree(r)
    BY <1>2, <2>1 DEF Tree
  <2>3. failure[s] = "none"
    BY <2>1 DEF IInv, TypeOK, Failures, Failed
  <2>4. AllResolved(s)
    <3>1. phase[s] = "settled"
      BY <2>1 DEF IInv, Own
    <3> QED
      BY <2>1, <2>3, <3>1 DEF IInv, Family
  <2>5. answer[c].how = "resolved" /\ parent[c] # NoRun
    BY <2>1, <2>4 DEF AllResolved
  <2>6. ~Failed(c)
    BY <2>1, <2>5 DEF IInv, Own
  <2> QED
    BY <2>2, <2>5, <2>6
<1>3. good \in SUBSET Runs
  BY DEF Tree
<1>4. \A s \in Tree(r) : s \in good
  BY <1>1, <1>2, <1>3 DEF Tree
<1> QED
  BY <1>4

\* For any number of runs, nested in any way: a program that answers 0 had no
\* failure in any of the runs it was made of, unless one of them called exit(0) or
\* threw what is no Error; and it answers, save when even its failure could not
\* be rendered (Program.ts: run(), renderErrors()).
THEOREM Surfaces == Spec => []FailuresSurface
<1>1. IInv => FailuresSurface
  <2> SUFFICES ASSUME IInv, NEW r \in Runs, phase[r] = "settled", parent[r] = NoRun
               PROVE  /\ answer[r].how = "rejected" => failure[r] = "nested"
                      /\ answer[r] = Resolved(0) =>
                           \/ \A s \in Tree(r) : ~Failed(s)
                           \/ \E s \in Tree(r) : failure[s] \in {"exit0", "value"}
                      /\ Failed(r) => told[r] = "failure" \/ answer[r].how = "rejected"
    BY DEF FailuresSurface
  <2>1. Own(r)
    BY DEF IInv
  <2>2. answer[r] = Resolved(0) => answer[r].how = "resolved" /\ ~Failed(r)
    BY <2>1 DEF Own, Resolved
  <2> QED
    BY <2>1, <2>2, TreeResolved DEF Own
<1> QED
  BY <1>1, Invariance, PTL
=============================================================================
