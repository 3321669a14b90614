------------------------------ MODULE Calendar ------------------------------
(***************************************************************************)
(* The parish calendar (server/domain/calendar.ts): pure functions of a    *)
(* date [year, month, day], a member's birthday [month, day] and the       *)
(* policy for 29 February, "feb28" or "mar1".  What an instant is in       *)
(* Africa/Lagos, and how dates are written, is left out.                   *)
(***************************************************************************)
EXTENDS Naturals, Sequences

Policies == {"feb28", "mar1"}

DAYS_IN_MONTH == <<31, 29, 31, 30, 31, 30, 31, 31, 30, 31, 30, 31>>

isValidMonthDay(month, day) == month \in 1..12 /\ day \in 1..DAYS_IN_MONTH[month]

Birthdays == {b \in [month : 1..12, day : 1..31] : isValidMonthDay(b.month, b.day)}

isLeapYear(year) == year % 4 = 0 /\ (year % 100 # 0 \/ year % 400 = 0)

(* The calendar of JavaScript's Date, which normalises days past the end of *)
(* a month.                                                                 *)
LastDay(year, month) ==
  IF month = 2 /\ (year % 4 # 0 \/ (year % 100 = 0 /\ year % 400 # 0)) THEN 28 ELSE DAYS_IN_MONTH[month]

isRealDate(date) ==
  /\ date \in [year : Nat, month : 1..12, day : 1..31]
  /\ date.day <= LastDay(date.year, date.month)

\* Exact for amounts up to 28, which pass one end of a month at most.
addDays(date, amount) ==
  LET day  == date.day + amount
      last == LastDay(date.year, date.month)
  IN  IF day <= last THEN [date EXCEPT !.day = day]
      ELSE IF date.month < 12 THEN [date EXCEPT !.month = @ + 1, !.day = day - last]
      ELSE [year |-> date.year + 1, month |-> 1, day |-> day - last]

\* Slips: the leap year is not looked at; the policy is.
matchesInLeapYearsToo(member, date, policy) ==
  \/ member.month = date.month /\ member.day = date.day
  \/ /\ member.month = 2 /\ member.day = 29
     /\ \/ policy = "mar1" /\ date.month = 3 /\ date.day = 1
        \/ policy # "mar1" /\ date.month = 2 /\ date.day = 28
matchesExactDayOnly(member, date, policy) ==
  member.month = date.month /\ member.day = date.day

\* A member born on 29 February celebrates by the policy in other years.
birthdayMatchesDate(member, date, policy) ==
  \/ member.month = date.month /\ member.day = date.day
  \/ /\ member.month = 2 /\ member.day = 29
     /\ ~isLeapYear(date.year)
     /\ \/ policy = "mar1" /\ date.month = 3 /\ date.day = 1
        \/ policy # "mar1" /\ date.month = 2 /\ date.day = 28

-----------------------------------------------------------------------------
\* What the policy promises: in every year one day, the birthday itself where
\* the year has it.  It does not mention leap years.
Celebration(member, year, policy) ==
  IF member.day <= LastDay(year, member.month)
  THEN [year |-> year, month |-> member.month, day |-> member.day]
  ELSE IF policy = "mar1" THEN [year |-> year, month |-> 3, day |-> 1]
  ELSE [year |-> year, month |-> 2, day |-> 28]
=============================================================================
