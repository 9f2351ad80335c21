------------------------------ MODULE Turntable ------------------------------
(***************************************************************************)
(* Angles of the turntable (app/eki/turntable_units.py), the angles of an  *)
(* advanced scan (app/eki/path_parser.py) and of the transitions between   *)
(* two nodes (app/trajectory/routing.py).  An angle is a number of encoder *)
(* counts; a full revolution, 360 degrees, is Rev of them.                 *)
(***************************************************************************)
EXTENDS Integers

CONSTANT Rev   \* counts of a revolution (DEFAULT_COUNTS_PER_REV)

ASSUME RevAssumption == Rev \in Nat \ {0}

Angles == 0..Rev

\* round() of the fraction p/q, q > 0: to the nearest integer, a tie to the even one.
Round(p, q) ==
    LET f == p \div q
        r == p % q
    IN IF 2 * r < q \/ (2 * r = q /\ f % 2 = 0) THEN f ELSE f + 1

\* angle_deg_to_counts clamps to one revolution.
Clamp(c) == IF c > Rev THEN Rev ELSE IF c < 0 THEN 0 ELSE c

Quantize(p, q) == Clamp(Round(p, q))

-----------------------------------------------------------------------------
\* expand_turntable_angles: one full revolution is cut into count equal parts and
\* its first angle left out; anything else runs from start to end.
IsFullRevolution(start, end) == {start, end} = {0, Rev}

\* Mutant: a full revolution is scanned at its first angle too.
RangeWithBothEnds(start, end, count) ==
    [i \in 1..count |-> IF count = 1 THEN Clamp(start)
                        ELSE Quantize(start * (count - 1) + (end - start) * (i - 1), count - 1)]

RangeAngles(start, end, count) ==
    [i \in 1..count |->
        CASE IsFullRevolution(Clamp(start), Clamp(end)) /\ count = 1 -> Clamp(end)
          [] IsFullRevolution(Clamp(start), Clamp(end)) /\ count > 1 /\ Clamp(start) = 0 ->
               Quantize(Rev * i, count)
          [] IsFullRevolution(Clamp(start), Clamp(end)) /\ count > 1 /\ Clamp(start) = Rev ->
               Quantize(Rev * (count - i), count)
          [] OTHER ->
               IF count = 1 THEN Clamp(start)
               ELSE Quantize(start * (count - 1) + (end - start) * (i - 1), count - 1)]

\* expand_turntable_angles_step.
StepAngles(start, step, count) == [i \in 1..count |-> Clamp(start + (i - 1) * step)]

\* Mutant: the first angle is the one the table leaves.
InterpolateFromStart(start, end, count) ==
    [i \in 1..count |-> Quantize(start * (count + 1) - (start - end) * (i - 2), count + 1)]

\* interpolate_turntable_angles: count angles strictly on the way.
Interpolate(start, end, count) ==
    [i \in 1..count |-> Quantize(start * (count + 1) - (start - end) * i, count + 1)]
=============================================================================
