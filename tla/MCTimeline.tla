----------------------------- MODULE MCTimeline -----------------------------
(* A small gallery: three items over two days, two orders of time and one
   without dates. *)
EXTENDS Timeline

CONSTANTS a, b, c

MCItem == {a, b, c}

MCView == {"newest", "oldest", "longest"}

MCListed == [newest |-> <<a, b, c>>, oldest |-> <<c, b, a>>, longest |-> <<b, a, c>>]

MCDay == [x \in MCItem |-> IF x = c THEN "monday" ELSE "tuesday"]

MCDated == {"newest", "oldest"}

MCCaller == {"grid", "viewer"}

MCAsks == {<<0, 2>>, <<1, 3>>}

MCBudget == [phone \in BOOLEAN |-> IF phone THEN 1 ELSE 3]

MCHoldings == {{b, c}, {a, b, c}}
=============================================================================
