---------------------------- MODULE ConstraintCycle ----------------------------
(***************************************************************************)
(* ConstraintBuilder under a caller that keeps the header's contract       *)
(* (constraint_builder_2d.h:55-60): any number of searches and ends of     *)
(* node, then WhenDone once; the next cycle follows the callback.  A       *)
(* search belongs to the node whose end is notified next, scan matchers    *)
(* are deleted between two cycles, and the caller asks for no search twice *)
(* in a cycle.                                                             *)
(***************************************************************************)
EXTENDS ConstraintBuilder

CONSTANTS
  Callbacks,  \* the functions given to WhenDone
  MaxEnds     \* bound on the calls of NotifyEndOfNode, for TLC

ASSUME CycleAssumption ==
  /\ NoCallback \notin Callbacks
  /\ MaxEnds \in Nat

VARIABLES
  matched,    \* the constraints that searches of this cycle have found
  delivered   \* what the callback of the last cycle was given

cycleVars == << cbVars, matched, delivered >>

CycleInit == CBInit /\ matched = {} /\ delivered = {}

Add(p) ==
  /\ callback = NoCallback
  /\ numStarted < MaxEnds
  /\ p \notin slots
  /\ MaybeAddConstraint(p)
  /\ UNCHANGED << matched, delivered >>

EndOfNode ==
  /\ callback = NoCallback
  /\ numStarted < MaxEnds
  /\ NotifyEndOfNode
  /\ UNCHANGED << matched, delivered >>

Done(cb) ==
  /\ nodeDeps = {}
  /\ callback = NoCallback
  /\ WhenDone(cb)
  /\ UNCHANGED << matched, delivered >>

\* Between two cycles, where the pose graph trims.
Trim(S) ==
  /\ S # {}
  /\ slots = {} /\ callback = NoCallback
  /\ DeleteScanMatchers(S)
  /\ UNCHANGED << matched, delivered >>

Search(p) ==
  /\ Compute(p)
  /\ matched' = matched \cup (found' \ found)
  /\ UNCHANGED delivered

BuildOrFinish ==
  /\ \/ \E s \in building : BuildMatcher(s)
     \/ \E t \in finishing : FinishNode(t)
  /\ UNCHANGED << matched, delivered >>

CallCallback ==
  /\ \E d \in doneTasks : RunWhenDone(d)
  /\ delivered' = found
  /\ matched' = {}

CycleNext ==
  \/ \E p \in Searches : Add(p)
  \/ EndOfNode
  \/ \E cb \in Callbacks : Done(cb)
  \/ \E S \in SUBSET matchers : Trim(S)
  \/ \E p \in outstanding : Search(p)
  \/ BuildOrFinish
  \/ CallCallback

CycleSpec == CycleInit /\ [][CycleNext]_cycleVars

\* The pool runs every task whose dependencies have completed.
CycleFairness ==
  /\ WF_cycleVars(BuildOrFinish)
  /\ WF_cycleVars(CallCallback)
  /\ \A p \in Searches : WF_cycleVars(Search(p))

LiveCycleSpec == CycleSpec /\ CycleFairness

(***************************************************************************)
(* Properties.                                                             *)
(***************************************************************************)

\* The state of the class is well typed.
CycleTypeOK ==
  /\ CBTypeOK
  /\ callback \in Callbacks \cup {NoCallback}
  /\ matched \in SUBSET Searches
  /\ delivered \in SUBSET Searches

\* No search outlives the entry and the matcher it holds a pointer to.
NoDanglingPointer == PointeesAlive

\* "After all computations are done the callback will be called with the
\* result" (constraint_builder_2d.h:57): when RunWhenDoneCallback takes the
\* callback, no search runs or waits, every node counts as finished, and the
\* result is every constraint found in this cycle.
CalledWithEverything ==
  [][CallCallback => /\ outstanding = {}
                     /\ numFinished = numStarted
                     /\ delivered' = matched]_cycleVars

\* Every callback given to WhenDone is eventually called.
CallbackCalled == callback # NoCallback ~> callback = NoCallback
=============================================================================
