------------------------------ MODULE MCCroniter ------------------------------
(* A crontab with a day that February does not have and an early one:      *)
(* 0 0 1,30 * *, from the second of February on.                           *)
EXTENDS Croniter

Only(v) == {[lo |-> v, hi |-> v, step |-> 1, star |-> FALSE]}

FirstAndThirtieth ==
  {[minute |-> Only(0), hour |-> Only(0), day |-> Only(1) \cup Only(30),
    month |-> {}, dow |-> {}]}

SecondOfFebruary ==
  {[year |-> 2023, month |-> 2, day |-> 2, hour |-> 0, minute |-> 0]}
=============================================================================
