------------------------------- MODULE CronExpr -------------------------------
(***************************************************************************)
(* The cron expressions of the Scheduled Tasks page (app_cron.py): what    *)
(* the poll thread's matcher accepts at a calendar minute, and what the    *)
(* save endpoint rejects as an expression that never matches.              *)
(*                                                                         *)
(* An expression is a record of five fields, a field the sequence of its   *)
(* comma-separated parts, a part what the matcher's splits and int() calls *)
(* make of it: a base ("*", a number, a range, or a word that is no        *)
(* number) and, behind a slash, a step.                                    *)
(***************************************************************************)
EXTENDS Integers, Sequences

Part(base, lo, hi) ==
  [base |-> base, lo |-> lo, hi |-> hi, stepped |-> FALSE, step |-> 1]

Star == Part("star", 0, 0)
Num(n) == Part("num", n, n)
Span(a, b) == Part("range", a, b)
Word == Part("word", 0, 0)
Every(part, n) == [part EXCEPT !.stepped = TRUE, !.step = n]

\* Mutant of PartMatches: every step counts from zero, as it would without
\* the field's lowest value.
PartMatchesFromZero(part, value, min) ==
  IF part.stepped
  THEN /\ part.step > 0
       /\ \/ part.base = "star" /\ value % part.step = 0
          \/ part.base = "range" /\ value \in part.lo..part.hi
             /\ (value - part.lo) % part.step = 0
          \/ part.base = "num" /\ value >= part.lo
             /\ (value - part.lo) % part.step = 0
  ELSE part.base \in {"num", "range"} /\ value \in part.lo..part.hi

\* One comma-separated part.  A step of zero or less, and a part int() cannot
\* read, match nothing; a bare "*" inside a list is such a part.
PartMatches(part, value, min) ==
  IF part.stepped
  THEN /\ part.step > 0
       /\ \/ part.base = "star" /\ value >= min
             /\ (value - min) % part.step = 0
          \/ part.base = "range" /\ value \in part.lo..part.hi
             /\ (value - part.lo) % part.step = 0
          \/ part.base = "num" /\ value >= part.lo
             /\ (value - part.lo) % part.step = 0
  ELSE part.base \in {"num", "range"} /\ value \in part.lo..part.hi

FieldMatches(field, value, min) ==
  \/ field = <<Star>>
  \/ \E i \in DOMAIN field : PartMatches(field[i], value, min)

Fields == {"minute", "hour", "dom", "month", "dow"}

\* _CRON_FIELD_DOMAINS: the values the save endpoint tries in each field.
Domain ==
  [f \in Fields |-> CASE f = "minute" -> 0..59
                      [] f = "hour"   -> 0..23
                      [] f = "dom"    -> 1..31
                      [] f = "month"  -> 1..12
                      [] f = "dow"    -> 0..6]

Lowest(f) == IF f \in {"dom", "month"} THEN 1 ELSE 0

\* _cron_expr_problem: each field on its own must match something.
Accepted(e) ==
  \A f \in Fields : \E v \in Domain[f] : FieldMatches(e[f], v, Lowest(f))

\* Sunday is 0, and an expression may also call it 7.
DowMatches(e, t) ==
  \/ FieldMatches(e.dow, t.dow, 0)
  \/ t.dow = 0 /\ FieldMatches(e.dow, 7, 0)

\* A restricted day of month and a restricted weekday are alternatives.
DayMatches(e, t) ==
  LET domOk == FieldMatches(e.dom, t.dom, 1)
      dowOk == DowMatches(e, t)
  IN  IF e.dom # <<Star>> /\ e.dow # <<Star>>
      THEN domOk \/ dowOk
      ELSE domOk /\ dowOk

\* cron_matches_now at the calendar minute t.
CronMatches(e, t) ==
  /\ FieldMatches(e.minute, t.minute, 0)
  /\ FieldMatches(e.hour, t.hour, 0)
  /\ DayMatches(e, t)
  /\ FieldMatches(e.month, t.month, 1)
===============================================================================
