--------------------------- MODULE RewardLifecycle ---------------------------
(***************************************************************************)
(* What the delivery of rewards promises, with no worker, lease, receipt   *)
(* or crash in sight: the life of one reward, and the permissions by which *)
(* its item may be given.  Rewards move independently, several of them in  *)
(* one step if need be.                                                    *)
(***************************************************************************)
EXTENDS Naturals

CONSTANT Rewards

VARIABLES
  phase,    \* where each reward is in its life
  allowed,  \* how many grants of it have been permitted
  given     \* how many times its item has reached the player

\* none: not earned; held: a historical reward nobody approved; open: the
\* daemon may try; busy: it is trying; review: an administrator decides;
\* closed: nothing will be tried again.
Phases == {"none", "held", "open", "busy", "review", "closed"}

Init ==
  /\ phase \in [Rewards -> {"none", "held", "review", "closed"}]
  /\ allowed = [r \in Rewards |-> 0]
  /\ given = [r \in Rewards |-> 0]

\* The moves that carry a new permission, and those that do not.
Permitting == {<<"none", "open">>, <<"held", "open">>, <<"review", "open">>}
Moves == {<<"open", "busy">>, <<"open", "review">>, <<"open", "closed">>,
          <<"busy", "open">>, <<"busy", "review">>, <<"busy", "closed">>,
          <<"review", "closed">>}

Permit(r) ==
  /\ <<phase[r], phase'[r]>> \in Permitting
  /\ allowed'[r] = allowed[r] + 1
  /\ given'[r] = given[r]

Move(r) ==
  /\ <<phase[r], phase'[r]>> \in Moves
  /\ allowed'[r] = allowed[r]
  /\ given'[r] = given[r]

\* The item may arrive in any phase, when nobody is looking.
Give(r) ==
  /\ given[r] < allowed[r]
  /\ given'[r] = given[r] + 1
  /\ phase'[r] = phase[r]
  /\ allowed'[r] = allowed[r]

Rest(r) ==
  /\ phase'[r] = phase[r]
  /\ allowed'[r] = allowed[r]
  /\ given'[r] = given[r]

Next == \A r \in Rewards : Permit(r) \/ Move(r) \/ Give(r) \/ Rest(r)

Spec == Init /\ [][Next]_<<phase, allowed, given>>
=============================================================================
