----------------------------- MODULE MCSchedule -----------------------------
(* Small instances of Schedule: a few days around the end of February of an *)
(* ordinary year, a leap year and a century, and around New Year.           *)
EXTENDS Schedule, TLC

Date(y, m, d) == [year |-> y, month |-> m, day |-> d]
Born(m, d) == [month |-> m, day |-> d]
Rule(alertTime, lead, policy) ==
  [enabled |-> TRUE, alertTime |-> alertTime, lead |-> lead, policy |-> policy]

EndsOfFebruaryAndYear ==
  {Date(2027, 2, 27), Date(2028, 2, 27), Date(2100, 2, 27), Date(2027, 12, 30)}
OneFebruary == {Date(2027, 2, 27)}

LeapMembers == {Born(2, 29), Born(3, 1), Born(1, 1)}
LeapMember == {Born(2, 29)}

\* At the last minute of the day, at midnight, and switched off.
BothPolicies ==
  {Rule(1, 0, "feb28"), Rule(0, 2, "mar1"), [Rule(1, 0, "mar1") EXCEPT !.enabled = FALSE]}
OneRule == {Rule(1, 0, "feb28")}
=============================================================================
