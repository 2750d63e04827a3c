-------------------------------- MODULE Gnss --------------------------------
(***************************************************************************)
(* The GNSS plugin (session/plugins/gnss.rs): two watchdogs, one for       *)
(* positions and one for the quality of the fix, and the events they raise *)
(* once per transition.                                                    *)
(***************************************************************************)
EXTENDS AutoDrive

CONSTANTS
  PositionTimeout,  \* stale_ms
  QualityTimeout    \* quality_stale_ms

ASSUME GnssAssumption ==
  PositionTimeout \in Nat \ {0} /\ QualityTimeout \in Nat \ {0}

NewGnss ==
  [lastPosition |-> Never, positionStale |-> FALSE, fixDegraded |-> FALSE,
   lastQuality |-> Never, qualityStale |-> FALSE, steerable |-> FALSE]

\* on_frame for a message that yields a position.  PGN 129029 also carries
\* the quality of the fix (fix_is_steerable); PGN 129025 repeats the last
\* one.  Order of the events: the quality first, then the position.
GnssOnPosition(n, withQuality, steerable) ==
  LET quality == IF withQuality \/ n.lastQuality = Never THEN 0 ELSE n.lastQuality
      stale == n.qualityStale /\ ~withQuality
      fix == IF withQuality THEN steerable ELSE n.steerable
      usable == ~stale /\ fix
      next == [n EXCEPT !.lastPosition = 0, !.positionStale = FALSE,
                        !.lastQuality = quality, !.qualityStale = stale,
                        !.steerable = fix, !.fixDegraded = ~usable]
  IN  [gn |-> next,
       events |-> (CASE ~usable /\ ~n.fixDegraded -> <<"FixDegraded">>
                     [] usable /\ n.fixDegraded -> <<"FixRestored">>
                     [] OTHER -> << >>) \o <<"Position">>]

GnssOnTick(n) ==
  LET lost == ~n.positionStale /\ Elapsed(n.lastPosition, PositionTimeout)
      old == ~n.qualityStale /\ Elapsed(n.lastQuality, QualityTimeout)
  IN  [gn |-> [n EXCEPT !.positionStale = @ \/ lost, !.qualityStale = @ \/ old,
                        !.fixDegraded = @ \/ old],
       events |-> (IF lost THEN <<"PositionStale">> ELSE << >>)
                    \o (IF old /\ ~n.fixDegraded THEN <<"FixDegraded">> ELSE << >>)]

GnssOlder(n, back) ==
  [n EXCEPT !.lastPosition = Older(@, PositionTimeout + back),
            !.lastQuality = Older(@, QualityTimeout + back)]

GnssRewound(n, d) ==
  [n EXCEPT !.lastPosition = Rewound(@, d), !.lastQuality = Rewound(@, d)]
==============================================================================
