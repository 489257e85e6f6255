------------------------------- MODULE Wheel --------------------------------
(***************************************************************************)
(* Turning the wheel: FoxWheelScrollBar and ScrollDynamics.  A turn gives  *)
(* the bar a destination, towards which it moves in steps of a timer for   *)
(* 80 ms; further turns add to the destination.  Layout, the other pane    *)
(* and the reader move or resize the bar while it is in motion.            *)
(***************************************************************************)
EXTENDS Integers

CONSTANTS
    Bars,         \* the scroll bars of the window
    Limits,       \* what range - page may be
    Turns,        \* turns of the wheel, in tenths of a pixel: delta * unit * speed * gain
    Duration      \* 80 ms, in steps of the motion timer

ASSUME WheelAssumption == Limits \subseteq Nat /\ Turns \subseteq Int \ {0} /\ Duration \in Nat \ {0}

VARIABLES
    bars,         \* pos, limit (range - page), remainder, direction
    motion,       \* a bar that has its timer: observed pos and limit, destination, time left
    activeBar,    \* the static pointer; "" if null
    turnsTotal    \* where the turns of a motion add up to, in tenths (for the properties)

wheelVars == <<bars, motion, activeBar, turnsTotal>>

Magnitude(x) == IF x < 0 THEN -x ELSE x
Sign(x) == IF x < 0 THEN -1 ELSE IF x = 0 THEN 0 ELSE 1
Between(x, hi) == IF x < 0 THEN 0 ELSE IF x > hi THEN hi ELSE x

\* Without a timer, destination and what was observed are not looked at.
Resting == [armed |-> FALSE, seen |-> 0, seenLimit |-> 0, destination |-> 0, left |-> 0]

WheelInit ==
    /\ \E limit \in Limits :
          bars = [b \in Bars |-> [pos |-> 0, limit |-> limit, remainder |-> 0, direction |-> 0]]
    /\ motion = [b \in Bars |-> Resting] /\ activeBar = "" /\ turnsTotal = [b \in Bars |-> 0]

(***************************************************************************)
(* ScrollDynamics::advance.                                                *)
(***************************************************************************)
\* Mutant of Advance: the fraction of the last turn is not added.
AdvanceForgetting(remainder, turn, base, limit) ==
    LET movement == -turn
        whole == Sign(movement) * (Magnitude(movement) \div 10)
        target == Between(base + whole, limit)
    IN [target |-> target, remainder |-> IF target \in {0, limit} THEN 0 ELSE movement - 10 * whole]

\* Whole pixels are moved, a fraction is kept for the next turn, and none at
\* either end.
Advance(remainder, turn, base, limit) ==
    LET movement == remainder - turn
        whole == Sign(movement) * (Magnitude(movement) \div 10)
        target == Between(base + whole, limit)
        atEnd == (target = 0 /\ movement < 0) \/ (target = limit /\ movement > 0)
    IN [target |-> target, remainder |-> IF atEnd THEN 0 ELSE movement - 10 * whole]

(***************************************************************************)
(* FoxWheelScrollBar.                                                      *)
(***************************************************************************)
MotionDropped(bar) == [bar EXCEPT !.remainder = 0, !.direction = 0]

\* cancelMotion
CancelMotion(b) ==
    /\ bars' = [bars EXCEPT ![b] = MotionDropped(@)]
    /\ motion' = [motion EXCEPT ![b] = Resting]
    /\ activeBar' = IF activeBar = b THEN "" ELSE activeBar

\* Something else moved the bar, or its range changed.
Disturbed(bar, m) == bar.pos # m.seen \/ bar.limit # m.seenLimit

\* onMotionTick: a share of the way that remains, and all of it at the end.
Next(pos, m, now) ==
    LET way == m.destination - pos
        step == (Magnitude(way) + now - 1) \div now
    IN IF now > 0 /\ Magnitude(way) > 1 THEN pos + Sign(way) * step ELSE m.destination

Stepped(pos, m, now) ==
    LET next == Next(pos, m, now)
    IN IF next = m.destination THEN Resting ELSE [m EXCEPT !.seen = next, !.left = now]

\* onMouseWheel, which makes the first step. Another bar's motion ends, and so
\* does this one's if it was disturbed or turned back. With Alt or Control, and
\* after a pause of 200 ms, fractions are forgotten.
Turn(b, turn, fresh, now) ==
    LET m == motion[b]
        cancel == (m.armed /\ Disturbed(bars[b], m)) \/ turn * bars[b].direction < 0
        bar == IF cancel THEN MotionDropped(bars[b]) ELSE bars[b]
        kept == IF fresh THEN 0 ELSE bar.remainder
        base == IF m.armed /\ ~cancel THEN m.destination ELSE bar.pos
        to == Advance(kept, turn, base, bar.limit)
        going == [armed |-> TRUE, seen |-> bar.pos, seenLimit |-> bar.limit,
                  destination |-> to.target, left |-> now]
    IN /\ bars' = [x \in Bars |->
                     IF x = b THEN [bar EXCEPT !.remainder = to.remainder, !.direction = Sign(turn),
                                               !.pos = IF to.target = @ THEN @ ELSE Next(@, going, now)]
                     ELSE IF x = activeBar THEN MotionDropped(bars[x]) ELSE bars[x]]
       /\ motion' = [x \in Bars |->
                       IF x = b THEN IF to.target = bar.pos THEN Resting ELSE Stepped(bar.pos, going, now)
                       ELSE IF x = activeBar THEN Resting ELSE motion[x]]
       /\ activeBar' = b
       /\ turnsTotal' = [turnsTotal EXCEPT ![b] = Between(10 * base + kept - turn, 10 * bar.limit)]

Tick(b, now) ==
    /\ motion[b].armed /\ now <= motion[b].left
    /\ IF Disturbed(bars[b], motion[b])
       THEN CancelMotion(b)
       ELSE /\ bars' = [bars EXCEPT ![b].pos = Next(@, motion[b], now)]
            /\ motion' = [motion EXCEPT ![b] = Stepped(bars[b].pos, @, now)]
            /\ UNCHANGED activeBar
    /\ UNCHANGED turnsTotal

\* onPress, setProfile, and keys and zoom in the pane (cancelTree).
Interrupt(b) == CancelMotion(b) /\ UNCHANGED turnsTotal

\* FoxRenderHost::setViewport: synchronizing and restoring cancel, then move.
SetViewport(b, pos) ==
    /\ pos <= bars[b].limit
    /\ bars' = [bars EXCEPT ![b] = [MotionDropped(@) EXCEPT !.pos = pos]]
    /\ motion' = [motion EXCEPT ![b] = Resting]
    /\ activeBar' = IF activeBar = b THEN "" ELSE activeBar
    /\ UNCHANGED turnsTotal

\* FOX's layout: the range or the page changes, and the position is kept in it.
Relimit(b, limit) ==
    /\ limit # bars[b].limit
    /\ bars' = [bars EXCEPT ![b].limit = limit, ![b].pos = Between(@, limit)]
    /\ UNCHANGED <<motion, activeBar, turnsTotal>>

WheelNext ==
    \E b \in Bars :
       \/ \E turn \in Turns, fresh \in BOOLEAN, now \in 0 .. Duration : Turn(b, turn, fresh, now)
       \/ \E now \in 0 .. Duration : Tick(b, now)
       \/ Interrupt(b)
       \/ \E limit \in Limits : Relimit(b, limit) \/ \E pos \in 0 .. limit : SetViewport(b, pos)

WheelSpec == WheelInit /\ [][WheelNext]_wheelVars

(***************************************************************************)
(* Properties.                                                             *)
(***************************************************************************)
WheelTypeOK ==
    \A b \in Bars :
       /\ bars[b] \in [pos : Nat, limit : Limits, remainder : -9 .. 9, direction : {-1, 0, 1}]
       /\ bars[b].pos <= bars[b].limit
       /\ motion[b].armed => motion[b].destination \in 0 .. motion[b].seenLimit

\* Turns of the wheel add up: a bar in motion goes to where all of them
\* together lead, to a fraction of a pixel and within its range, however
\* turns, steps and cancels interleave. Only one bar is ever in motion.
TurnsAddUp ==
    \A b \in Bars : motion[b].armed =>
       /\ activeBar = b
       /\ 10 * motion[b].destination + bars[b].remainder = turnsTotal[b]

\* Each step of a motion comes nearer to its destination, so that it ends; it
\* never pulls back a bar that layout, or the other pane, has moved meanwhile.
MotionsEnd ==
    [][\A b \in Bars : motion[b].armed /\ (\E now \in 0 .. Duration : Tick(b, now)) =>
         \/ bars'[b].pos = bars[b].pos /\ ~motion'[b].armed
         \/ Magnitude(motion[b].destination - bars'[b].pos)
               < Magnitude(motion[b].destination - motion[b].seen)]_wheelVars
=============================================================================
