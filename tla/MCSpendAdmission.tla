------------------------- MODULE MCSpendAdmission -------------------------
(* Small instances of SpendAdmission. *)
EXTENDS SpendAdmission, TLC

CONSTANTS p1, p2, h1, h2, h3, day, month

TwoCallers == {p1, p2}
CallerSymmetry == Permutations(TwoCallers)
TwoHolds == {h1, h2}
ThreeHolds == {h1, h2, h3}
OnlyFirst == {h1}
OnlySecond == {h2}
OnlyThird == {h3}
Nobody == {}
UnitPrice == [h \in Holds |-> 1]

BothWindows == {day, month}
OneWindow == {month}
DayAndMonth == {{day}, {day, month}}
MonthAlone == {{month}}
NarrowDay == [w \in Windows |-> IF w = day THEN 1 ELSE 2]
Wide == [w \in Windows |-> 3]

JustTwo == {2}
JustThree == {3}
OneOrThree == {1, 3}
One == {1}
OneOrTwo == {1, 2}
Never == {}
===========================================================================
