---------------------------- MODULE MCContainment ----------------------------
\* The levels are the code's, thresholds and cap are smaller.
EXTENDS ContainmentManager

\* For 1, 3, 5, 8 and 12 alerts: one warns, two throttle and would be enough for the
\* levels above the cap.
TheThresholds == <<1, 2, 2, 2, 2>>
=============================================================================
