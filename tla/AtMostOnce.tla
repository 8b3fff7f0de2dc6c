----------------------------- MODULE AtMostOnce -----------------------------
(***************************************************************************)
(* What the durable runner promises about one piece of submitted work,     *)
(* without saying how: robot effects begin at most once for each slot the  *)
(* work was granted.  A slot is granted by the submission, and another one *)
(* only by a run that began and completed.  Once closed, work never starts *)
(* again, whatever crashes (docs/robot-workspace.md, "Durable jobs").      *)
(***************************************************************************)
EXTENDS Naturals

CONSTANT Work            \* the pieces of work that may be submitted

VARIABLES
  slot,                  \* slot[w]: what is left of the current slot
  starts,                \* starts[w]: how often effects of w have begun
  renewals               \* renewals[w]: how often w was granted another slot

vars == <<slot, starts, renewals>>

TypeOK ==
  /\ slot \in [Work -> {"none", "open", "taken", "closed"}]
  /\ starts \in [Work -> Nat]
  /\ renewals \in [Work -> Nat]

Init ==
  /\ slot = [w \in Work |-> "none"]
  /\ starts = [w \in Work |-> 0]
  /\ renewals = [w \in Work |-> 0]

Submit(w) ==
  /\ slot[w] = "none"
  /\ slot' = [slot EXCEPT ![w] = "open"]
  /\ UNCHANGED <<starts, renewals>>

\* The claim is durable before anything moves.
Take(w) ==
  /\ slot[w] = "open"
  /\ slot' = [slot EXCEPT ![w] = "taken"]
  /\ UNCHANGED <<starts, renewals>>

Begin(w) ==
  /\ slot[w] = "taken"
  /\ starts[w] = renewals[w]
  /\ starts' = [starts EXCEPT ![w] = @ + 1]
  /\ UNCHANGED <<slot, renewals>>

Renew(w) ==
  /\ slot[w] = "taken"
  /\ starts[w] = renewals[w] + 1
  /\ slot' = [slot EXCEPT ![w] = "open"]
  /\ renewals' = [renewals EXCEPT ![w] = @ + 1]
  /\ UNCHANGED starts

Close(w) ==
  /\ slot[w] \in {"open", "taken"}
  /\ slot' = [slot EXCEPT ![w] = "closed"]
  /\ UNCHANGED <<starts, renewals>>

Next == \E w \in Work : Submit(w) \/ Take(w) \/ Begin(w) \/ Renew(w) \/ Close(w)

Spec == Init /\ [][Next]_vars

-----------------------------------------------------------------------------
\* Effects begin at most once per granted slot.
OncePerSlot == \A w \in Work : starts[w] <= renewals[w] + 1
=============================================================================
