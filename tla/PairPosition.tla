---------------------------- MODULE PairPosition ----------------------------
(***************************************************************************)
(* What the pair coordinator promises about the two venues, without files, *)
(* legs, replies or crashes: a position moves from one hedged quantity to  *)
(* another, Variational first.  While a move is under way the Variational  *)
(* side may advance to the goal and, as long as Lighter has not moved,     *)
(* come back; Lighter moves only when Variational is at the goal, and a    *)
(* move ends only with both venues at its start or both at its goal.       *)
(***************************************************************************)
EXTENDS Integers

VARIABLES
    moving,     \* is a move under way?
    have, goal, \* the hedged quantity it started from, and the one it is for
    var, lit    \* what the venues hold

positionVars == <<moving, have, goal, var, lit>>

Between(n, a, b) == (a <= n /\ n <= b) \/ (b <= n /\ n <= a)

PositionInit ==
    /\ moving = FALSE
    /\ have = 0 /\ goal = 0 /\ var = 0 /\ lit = 0

Plan ==
    /\ ~moving
    /\ moving' = TRUE
    /\ goal' \in Nat /\ goal' # have
    /\ UNCHANGED <<have, var, lit>>

FirstLeg ==
    /\ moving
    /\ lit = have
    /\ var' \in Int /\ Between(var', have, goal)
    /\ UNCHANGED <<moving, have, goal, lit>>

SecondLeg ==
    /\ moving
    /\ var = goal
    /\ lit' \in Int /\ Between(lit', have, goal)
    /\ UNCHANGED <<moving, have, goal, var>>

Done ==
    /\ moving
    /\ var = lit
    /\ var \in {have, goal}
    /\ moving' = FALSE
    /\ have' = var /\ goal' = var
    /\ UNCHANGED <<var, lit>>

PositionNext == Plan \/ FirstLeg \/ SecondLeg \/ Done

PositionSpec == PositionInit /\ [][PositionNext]_positionVars
=============================================================================
