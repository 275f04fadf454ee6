------------------------------ MODULE CronMeaning ------------------------------
(***************************************************************************)
(* What cron expressions mean, apart from how the matcher of app_cron.py   *)
(* finds out: the values a part of a field stands for and those of them    *)
(* its step reaches, and the days a pair of day fields names.              *)
(***************************************************************************)
EXTENDS CronRuns

Any == <<Star>>

\* The parts the matcher's splits may yield, as far as it is asked about: a number
\* or a range does not begin below the field, and a step comes behind a slash.
Parts(f) ==
  {part \in [base : {"star", "num", "range", "word"}, lo : Int, hi : Int,
             stepped : BOOLEAN, step : Int] :
     /\ part.base \in {"num", "range"} => part.lo >= Lowest(f)
     /\ ~part.stepped => part.step = 1}

\* What a part stands for: "*" the whole field, a number alone itself and before
\* a slash the field from there on; the step counts from the first of them.
Stands(part, f) ==
  CASE part.base = "star" -> {v \in Domain[f] : part.stepped}
    [] part.base = "word" -> {}
    [] part.base = "num" /\ part.stepped -> {v \in Domain[f] : v >= part.lo}
    [] OTHER -> Domain[f] \cap part.lo..part.hi

StepsFrom(start, n) == {start + k * n : k \in 0..59}

Means(part, f) ==
  LET all == Stands(part, f)
      start == CHOOSE v \in all : \A u \in all : v <= u
  IN  IF all = {} \/ part.step <= 0 THEN {}
      ELSE all \cap StepsFrom(start, part.step)

Matched(part, f) == {v \in Domain[f] : PartMatches(part, v, Lowest(f))}

\* A field means what its parts mean; a bare "*" alone restricts nothing.
Meant(field, f) ==
  IF field = Any THEN Domain[f] ELSE UNION {Means(field[i], f) : i \in DOMAIN field}

WellFormed == {e \in [Fields -> Seq(UNION {Parts(f) : f \in Fields})] :
                 \A f \in Fields : \A i \in DOMAIN e[f] : e[f][i] \in Parts(f)}
Times == [minute : 0..59, hour : 0..23, dom : 1..31, month : 1..12, dow : 0..6]

Days == [dom : 1..31, dow : 0..6]

\* The day is named by one of the fields that restrict it, or none does.
Named(dom, dow, t) ==
  \/ dom # Any /\ FieldMatches(dom, t.dom, 1)
  \/ dow # Any /\ \E n \in 0..7 : n % 7 = t.dow /\ FieldMatches(dow, n, 0)
  \/ dom = Any /\ dow = Any

-------------------------------------------------------------------------------
(* Small parts of every field, over real calendar dates *)

Edges(f) == {Lowest(f), Lowest(f) + 1, 5, 6}

SmallParts(f) ==
  LET bases == {Star, Word} \cup {Num(n) : n \in Edges(f)}
                 \cup {Span(a, b) : a \in Edges(f), b \in Edges(f)}
  IN  bases \cup {Every(base, n) : base \in bases, n \in -1..3}

DayFields(f) ==
  {Any} \cup {<<part>> : part \in {Num(1), Num(7), Span(5, 7), Every(Star, 2), Word}}
        \cup {<<Num(0), Num(6)>>}

OddParts ==
  UNION {{part \in SmallParts(f) : Matched(part, f) # Means(part, f)} : f \in Fields}

OddDays ==
  {e \in [dom : DayFields("dom"), dow : DayFields("dow"), day : Days] :
     ~(DayMatches(e, e.day) <=> Named(e.dom, e.dow, e.day))}

\* A part matches the values it stands for that a positive number of its steps
\* reaches from the first of them, in a field that begins at one as in a field
\* that begins at zero: "*/2" means the odd months and the even hours.  A day
\* matches when one of the day fields that restrict it names it: the day of the
\* month, or the weekday, in which Sunday may be called 7 (app_cron.py 379-480).
\* (No expression depends on the state: the guard makes the formula an invariant.)
MatcherAgrees == now \in Minutes => OddParts = {} /\ OddDays = {}
===============================================================================
