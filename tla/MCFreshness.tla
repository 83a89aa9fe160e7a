----------------------------- MODULE MCFreshness -----------------------------
(* Instances of Freshness for TLC.  With Half = 16 and Second = 4 the numbers *)
(* 4 to 7 wrap to negative durations, 8 to zero, 9 to one second.           *)
EXTENDS Freshness, TLC

Plain(control) == [status |-> 200, length |-> 1, control |-> control, expires |-> <<>>]

Numbers  == {Number(n) : n \in {-1, 0, 1, 2, 3, 4, 7, 8, 9}}
MaxAges  == {<<Directive("max-age", v)>> : v \in Numbers \cup {Empty, Bad}}
Pairs    == {<<Directive("max-age", v), Directive("s-maxage", w)>> :
               v \in {Bad, Number(-1), Number(0), Number(5)},
               w \in {Number(0), Number(1), Number(5)}}
Doubles  == {<<Directive("max-age", Number(1)), Directive("max-age", Number(2))>>,
             <<Directive("max-age", Number(2)), Directive("max-age", Number(1))>>}
Controls == MaxAges \cup Pairs \cup Doubles
              \cup {<<Directive("no-cache", Empty), Directive("max-age", Number(1))>>,
                    <<Directive("public", Empty)>>}

Limits == [MaxSize |-> 5, MaxAge |-> 10, MaxAge404 |-> 3, MaxAgeOverride |-> FALSE,
           MinContentAge |-> 2]
\* No floor and no limit on the size; the origin has no say, or all of it.
Bare   == [MaxSize |-> 0, MaxAge |-> 6, MaxAge404 |-> 0, MaxAgeOverride |-> TRUE,
           MinContentAge |-> 0]

Hosts  == {Limits, Bare, [Bare EXCEPT !.MaxAge404 = 9, !.MaxAgeOverride = FALSE]}

Origin == {Plain(c) : c \in Controls}
            \cup {[Plain(<<>>) EXCEPT !.expires = <<t>>] : t \in {-1, 3, 9, 99}}
            \cup {[Plain(<<Directive("max-age", Number(3))>>) EXCEPT !.expires = <<1>>]}
            \cup {[Plain(c) EXCEPT !.status = 404, !.length = -1] :
                    c \in {<<>>, <<Directive("max-age", Number(1))>>}}
            \cup {[Plain(<<>>) EXCEPT !.status = 500], [Plain(<<>>) EXCEPT !.length = -1],
                  [Plain(<<>>) EXCEPT !.length = 9], Plain(<<>>)}
=============================================================================
