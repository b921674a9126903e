---------------------------- MODULE EvmCallStack ----------------------------
(***************************************************************************)
(* What the call tree of the evaluation core promises, with the machines   *)
(* reduced to their modes: one frame per pending call, the root first.     *)
(* Only the innermost frame runs; a call suspends it and starts a child    *)
(* in one step; a frame exits Ok or Err, and one at the depth cap only     *)
(* with an error; an exited child returns to its waiting parent, which     *)
(* runs again.  EvmMachine implements this specification (see              *)
(* CallStackRefined there): derive, step and apply_sub, with the Require   *)
(* protocol and the instructions in between, are steps of this one.       *)
(***************************************************************************)
EXTENDS Naturals, Sequences

CONSTANT MaxDepth   \* the depth at which a machine can only fail

VARIABLE stack      \* "run", "wait", "ok" or "err" per frame, root first

Init == stack = <<"run">>

Innermost == stack[Len(stack)]
Outer(n) == SubSeq(stack, 1, Len(stack) - n)   \* all but the n innermost frames

(* The running frame invokes a sub-call: it waits on a new running child.  *)
Call ==
  /\ Innermost = "run" /\ Len(stack) <= MaxDepth
  /\ stack' = Outer(1) \o <<"wait", "run">>

(* The running frame exits; below the cap it may succeed or fail, at the   *)
(* cap it fails.                                                           *)
Exit ==
  /\ Innermost = "run"
  /\ \E r \in IF Len(stack) > MaxDepth THEN {"err"} ELSE {"ok", "err"} :
       stack' = Outer(1) \o <<r>>

(* An exited child is folded into its waiting parent, which resumes.       *)
Return ==
  /\ Len(stack) >= 2 /\ Innermost \in {"ok", "err"} /\ stack[Len(stack) - 1] = "wait"
  /\ stack' = Outer(2) \o <<"run">>

Next == Call \/ Exit \/ Return

(* The call tree keeps moving while some frame can step.  This does not  *)
(* make the root exit: Call and Return may alternate forever.            *)
Spec == Init /\ [][Next]_stack /\ WF_stack(Next)

=============================================================================
