------------------------ MODULE MCEndorsementPricing ------------------------
\* Instances of EndorsementPricing for TLC.
EXTENDS EndorsementPricing

\* A term of six days and one of seven, so that halves and other fractions
\* both occur; the first and last day of each, one in between, and the days
\* just outside.
MCTerms == {[start |-> 1, end |-> 7], [start |-> 1, end |-> 8]}
MCDays  == {0, 1, 4, 6, 7, 8}

\* Annual premiums from zero: equal, one cent apart, and far apart.
MCPremiums == {0, 1, 4}

Calendar == -1..9

\* UTC (the container's clock), and a North American clock whose summer time
\* starts on day 4: both at or behind UTC on every day.
MCZones == {[d \in Calendar |-> 0],
            [d \in Calendar |-> IF d < 4 THEN -5 ELSE -4]}

\* A clock ahead of UTC: two hours all year, and London's, which is ahead
\* of UTC in summer only.
MCEasternZones == {[d \in Calendar |-> 2],
                   [d \in Calendar |-> IF d < 4 THEN 0 ELSE 1]}
=============================================================================
