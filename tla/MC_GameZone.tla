----------------------------- MODULE MC_GameZone -----------------------------
(* An instance of GameZone for TLC.                                        *)
EXTENDS GameZone

CONSTANTS r1, r2, l1, l2, n1, n2

\* The first registration has the first name and the logins are in the order of
\* the uids they ask for: every other case is one of these, renamed.
RenamedInit == ZoneInit /\ name[r1] = n1 /\ uid[l1] <= uid[l2]

RenamedSpec     == RenamedInit /\ [][ZoneNext]_zoneVars
RenamedFairSpec == RenamedSpec /\ ZoneFairness

=============================================================================
