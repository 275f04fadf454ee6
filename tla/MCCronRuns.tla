------------------------------ MODULE MCCronRuns ------------------------------
(* Instances of CronRuns: a plugin's schedule and an online one, around midnight *)
(* before the first of March, which is a Sunday.                               *)
EXTENDS CronMeaning

CONSTANTS p1, p2, w1, plugin, album, cleaning

\* One run of the plugin and one of the type a page starts at a time; a second
\* online run, for the minute after a run that was cut short.
TwoSchedules == {plugin, album}
OneSchedule == {plugin}
RunTypes ==
  [t \in Tasks |-> CASE t = 1 -> plugin [] t = 2 -> cleaning [] OTHER -> album]
NoParents == [t \in Tasks |-> None]
NoRestarts == [t \in Tasks |-> 0]
Ranks == [s \in Schedules |-> IF s = plugin THEN 1 ELSE 2]

At(h, m, d, mo, wd) == [minute |-> m, hour |-> h, dom |-> d, month |-> mo, dow |-> wd]
Midnight ==
  [m \in 0..2 |-> IF m = 0 THEN At(23, 59, 28, 2, 6) ELSE At(0, m - 1, 1, 3, 0)]

Expr(m, h, d, mo, wd) ==
  [minute |-> m, hour |-> h, dom |-> d, month |-> mo, dow |-> wd]

\* "59 23 * * *" for the plugin, which a user may move to "1-9 0 1 */2 *"; the
\* albums at "59 * 1 * 0,6".
AtMidnight == Expr(<<Num(59)>>, <<Num(23)>>, Any, Any, Any)
FirstOfMonth == Expr(<<Span(1, 9)>>, <<Num(0)>>, <<Num(1)>>, <<Every(Star, 2)>>, Any)
Weekend == Expr(<<Num(59)>>, Any, <<Num(1)>>, Any, <<Num(0), Num(6)>>)
Expressions ==
  [s \in Schedules |-> IF s = plugin THEN {AtMidnight} ELSE {Weekend}]
Edited ==
  [s \in Schedules |->
     IF s = plugin THEN {AtMidnight, FirstOfMonth} ELSE {Weekend}]
===============================================================================
