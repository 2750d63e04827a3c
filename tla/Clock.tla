-------------------------------- MODULE Clock --------------------------------
(***************************************************************************)
(* Time as the sans-IO core sees it (time.rs).  The host stamps every call *)
(* with an Instant; only differences matter, so an Option<Instant> that is *)
(* stored somewhere is Never or its age.  An age is negative when the      *)
(* host's clock has jumped back behind it.                                 *)
(***************************************************************************)
EXTENDS Integers

CONSTANT MaxBack  \* bound: how far the host's clock may jump back

ASSUME ClockAssumption == MaxBack \in Nat /\ MaxBack < 1000

Never == -1000

\* Instant::millis_since: a time in the future is zero milliseconds ago.
millis_since(age) == IF age < 0 THEN 0 ELSE age

Elapsed(age, timeout) == age # Never /\ millis_since(age) >= timeout

\* advance_millis(&mut last, now): what it returns, and the new age of
\* `last`.  A clock that is behind `last` leaves it alone.
advance_millis(age) == IF age = Never THEN 0 ELSE millis_since(age)
Advanced(age) == IF age = Never \/ age > 0 THEN 0 ELSE age

\* One unit passes.  An age of `limit` cannot be told from a larger one.
Older(age, limit) == IF age = Never \/ age >= limit THEN age ELSE age + 1

\* The clock jumps back by d.
Rewound(age, d) == IF age = Never THEN Never ELSE age - d
==============================================================================
