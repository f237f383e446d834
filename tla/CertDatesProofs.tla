--------------------------- MODULE CertDatesProofs ---------------------------
(* The encodings of a certificate's dates, compressed and POSIX, for every  *)
(* date and number of years; that a certificate on its way keeps what it is *)
(* made of; and that its dates come back from the device.                   *)
EXTENDS CertDates, WellFoundedInduction, TLAPS

(* A date as broken down by the host. *)
Stamps == [year : Int, mon : Int, mday : Int, hour : Int, min : Int, sec : Int]

\* The expire years split into five bits and two, and come back.
LEMMA SplitYears == ASSUME NEW n \in 0..127
                    PROVE  /\ n % 32 \in 0..31 /\ (n \div 32) % 4 = n \div 32
                           /\ (n % 32) + 32 * (n \div 32) = n
                           /\ n \in 0..31 => n % 32 = n /\ n \div 32 = 0
OBVIOUS

(* What atcacert_date_enc_compcert_ext accepts, in the version that          *)
(* atcacert_get_comp_cert_ext chooses for it, atcacert_date_dec_compcert_ext *)
(* reads back: the issue date to the hour, and the years.                    *)
THEOREM DatesReadBack ==
    ASSUME NEW issue \in Stamps, NEW years \in Int,
           EncodesComp(VersionFor(issue, years), issue, years)
    PROVE  LET c == EncComp(VersionFor(issue, years), issue, years)
           IN  /\ CompYears(c) = years
               /\ CompIssue(c) = Stamp(issue.year, issue.mon, issue.mday, issue.hour, 0, 0)
<1> DEFINE v == VersionFor(issue, years)
           c == EncComp(v, issue, years)
           y == issue.year - 2000
<1>1. v \in {0, 1} /\ (v = 0 => issue.year <= 2031 /\ years <= 31)
  BY DEF VersionFor, Stamps
<1>2. y \in 0..127 /\ years \in 0..127 /\ issue.mon \in 0..11
  BY <1>1 DEF EncodesComp, InText, Stamps
<1>3. v = 0 => y \in 0..31 /\ years \in 0..31
  BY <1>1, <1>2 DEF Stamps
<1>4. Extended(c) <=> v = 1
  BY <1>1 DEF Extended, EncComp
<1>5. CompYears(c) = years
  <2>1. c.expire = years % 32 /\ c.expire_ms = (years \div 32) % 4
    BY DEF EncComp
  <2> QED BY <1>1, <1>2, <1>3, <1>4, <2>1, SplitYears DEF CompYears
<1>6. 2000 + c.year + (IF Extended(c) THEN 32 * c.year_ms ELSE 0) = issue.year
  <2>1. c.year = y % 32 /\ c.year_ms = (y \div 32) % 4
    BY DEF EncComp
  <2>2. (y % 32) + (IF v = 1 THEN 32 * ((y \div 32) % 4) ELSE 0) = y
    BY <1>1, <1>2, <1>3, SplitYears
  <2> QED BY <1>2, <1>4, <2>1, <2>2, SplitYears DEF Stamps
<1>7. (c.mon + 15) % 16 = issue.mon
  BY <1>2 DEF EncComp
<1>8. c.mday = issue.mday /\ c.hour = issue.hour
  BY DEF EncComp
<1>9. CompIssue(c) = Stamp(issue.year, issue.mon, issue.mday, issue.hour, 0, 0)
  <2> HIDE DEF c
  <2> QED BY <1>6, <1>7, <1>8 DEF CompIssue
<1> QED BY <1>5, <1>9

-----------------------------------------------------------------------------
(* Induction.  The prover cannot instantiate the library's rule for a        *)
(* predicate; for a set of numbers it follows from their order.              *)

\* The order of the numbers as a relation
LEMMA LessThan == \A m, n : <<m, n>> \in OpToRel(<, Nat) <=> m \in Nat /\ n \in Nat /\ m < n
  BY DEF OpToRel

\* A set of numbers has a least one.
LEMMA Least ==
    ASSUME NEW T \in SUBSET Nat, T # {}
    PROVE  \E m \in T : \A n \in T : m <= n
<1> DEFINE R == OpToRel(<, Nat)
<1>1. IsWellFoundedOn(R, Nat)
  BY NatLessThanWellFounded
<1>2. \A m, n : <<m, n>> \in R <=> m \in Nat /\ n \in Nat /\ m < n
  BY LessThan
<1> HIDE DEF R
<1>3. PICK m \in T : \A n \in T : ~(<<n, m>> \in R)
  BY <1>1, WFMin
<1>4. ASSUME NEW n \in T PROVE m <= n
  <2>1. m \in Nat /\ n \in Nat /\ ~(n < m)
    BY <1>2, <1>3
  <2> QED BY <2>1
<1> QED BY <1>4

\* A set that has 0 and with each number the next has them all.
LEMMA Induction ==
    ASSUME NEW T \in SUBSET Nat, 0 \in T, \A n \in T : n + 1 \in T
    PROVE  \A n \in Nat : n \in T
<1> DEFINE U == Nat \ T
<1> SUFFICES ASSUME U # {} PROVE FALSE
  OBVIOUS
<1>1. PICK m \in U : \A n \in U : m <= n
  <2>1. U \in SUBSET Nat
    OBVIOUS
  <2> HIDE DEF U
  <2> QED BY <2>1, Least
<1>2. m # 0 /\ m \in Nat
  OBVIOUS
<1>3. m - 1 \in Nat /\ m - 1 < m
  BY <1>2
<1>4. m - 1 \in T
  BY <1>1, <1>3
<1>5. m - 1 + 1 = m
  BY <1>2
<1> QED BY <1>4, <1>5

-----------------------------------------------------------------------------
(* POSIX time: the recursive sums over years and months, and their inverse *)

\* The days before a year, in closed form: a leap year in four, but not 2100.
DaysBefore(y) == 365 * (y - 1970) + ((y - 1969) \div 4) - (IF y > 2100 THEN 1 ELSE 0)

\* The years of a POSIX time know one exception of the four years' rule.
LEMMA LeapYears == ASSUME NEW y \in 1970..2107 PROVE IsLeap(y) <=> y % 4 = 0 /\ y # 2100
  BY DEF IsLeap

YearDays(y) == IF IsLeap(y) THEN 366 ELSE 365
Follows(y, z) == y \in 1970..2106 /\ z \in 1971..2107 /\ z = y + 1

\* The sum of a year's days is the closed form's step.
LEMMA NextYear ==
    ASSUME NEW y, NEW z, Follows(y, z)
    PROVE  /\ DaysBefore(z) = DaysBefore(y) + YearDays(y)
           /\ DaysBefore(y) \in Nat /\ YearDays(y) \in {365, 366}
<1>1. (z - 1969) \div 4 = ((y - 1969) \div 4) + (IF y % 4 = 0 THEN 1 ELSE 0)
  BY DEF Follows
<1> QED BY <1>1, LeapYears DEF DaysBefore, YearDays, Follows

\* The recursive sum exists and is the closed form.
LEMMA YearStarts == \A y \in 1970..2107 : YearStart[y] = DaysBefore(y)
<1> DEFINE Eq(f) == f = [y \in 1970..2107 |->
                        IF y = 1970 THEN 0 ELSE f[y - 1] + YearDays(y - 1)]
<1>1. \E f : Eq(f)
  <2> DEFINE f == [y \in 1970..2107 |-> DaysBefore(y)]
  <2>1. ASSUME NEW y \in 1970..2107
        PROVE  DaysBefore(y) = IF y = 1970 THEN 0
                               ELSE f[y - 1] + YearDays(y - 1)
    <3>1. CASE y = 1970
      BY <3>1 DEF DaysBefore
    <3>2. CASE y # 1970
      <4>1. y - 1 \in 1970..2106 /\ (y - 1) + 1 = y
        BY <3>2
      <4>2. f[y - 1] = DaysBefore(y - 1)
        BY <4>1
      <4> DEFINE x == y - 1
      <4>3. DaysBefore(y) = DaysBefore(x) + YearDays(x)
        <5>1. Follows(x, y)
          BY <3>2, <4>1 DEF Follows
        <5> HIDE DEF x
        <5> QED BY <5>1, NextYear
      <4> HIDE DEF f
      <4> QED BY <3>2, <4>1, <4>2, <4>3
    <3> QED BY <3>1, <3>2
  <2>2. Eq(f)
    <3> DEFINE g(y) == IF y = 1970 THEN 0 ELSE f[y - 1] + YearDays(y - 1)
    <3>1. \A y \in 1970..2107 : DaysBefore(y) = g(y)
      BY <2>1
    <3> HIDE DEF g
    <3>2. f = [y \in 1970..2107 |-> g(y)]
      BY <3>1
    <3> HIDE DEF f
    <3> QED BY <3>2 DEF g
  <2> HIDE DEF Eq, f
  <2> QED BY <2>2
<1>2. YearStart = CHOOSE f : Eq(f)
  BY DEF YearStart, YearDays
<1>3. Eq(YearStart)
  <2> HIDE DEF Eq
  <2> QED BY <1>1, <1>2
<1> DEFINE T == {n \in Nat : 1970 + n \in 1970..2107 => YearStart[1970 + n] = DaysBefore(1970 + n)}
<1>4. 0 \in T
  BY <1>3 DEF DaysBefore
<1>5. ASSUME NEW n \in T PROVE n + 1 \in T
  <2>1. SUFFICES ASSUME 1970 + (n + 1) \in 1970..2107
                 PROVE  YearStart[1970 + (n + 1)] = DaysBefore(1970 + (n + 1))
    OBVIOUS
  <2> DEFINE y == 1970 + (n + 1)
  <2>2. y \in 1970..2107 /\ y # 1970 /\ y - 1 = 1970 + n /\ y - 1 \in 1970..2106 /\ (y - 1) + 1 = y
    BY <2>1
  <2>3. YearStart[y - 1] = DaysBefore(y - 1)
    BY <2>2
  <2>4. YearStart[y] = YearStart[y - 1] + YearDays(y - 1)
    BY <1>3, <2>2
  <2> DEFINE x == y - 1
  <2>5. DaysBefore(y) = DaysBefore(x) + YearDays(x)
    <3>1. Follows(x, y)
      BY <2>2 DEF Follows
    <3> HIDE DEF x, y
    <3> QED BY <3>1, NextYear
  <2> HIDE DEF y
  <2>6. YearStart[y] = DaysBefore(y)
    BY <2>2, <2>3, <2>4, <2>5
  <2> QED BY <2>6 DEF y
<1>6. \A n \in Nat : n \in T
  <2>1. T \in SUBSET Nat
    OBVIOUS
  <2> HIDE DEF T
  <2> QED BY <1>4, <1>5, <2>1, Induction
<1>7. ASSUME NEW y \in 1970..2107 PROVE YearStart[y] = DaysBefore(y)
  <2>1. y - 1970 \in T /\ 1970 + (y - 1970) = y
    BY <1>6
  <2> QED BY <2>1
<1> QED BY <1>7

\* The days before a month, in closed form.
DaysBeforeMonth(y, mon) ==
    <<0, 31, 59, 90, 120, 151, 181, 212, 243, 273, 304, 334, 365>>[mon + 1]
        + (IF mon > 1 /\ IsLeap(y) THEN 1 ELSE 0)

\* The sum of a month's days is the closed form's step.
LEMMA NextMonth ==
    ASSUME NEW y, NEW mon, y \in Int, mon \in 0..11
    PROVE  /\ DaysBeforeMonth(y, mon + 1) = DaysBeforeMonth(y, mon) + MonthDays(y, mon)
           /\ MonthDays(y, mon) \in 28..31 /\ DaysBeforeMonth(y, mon) \in 0..335
           /\ DaysBeforeMonth(y, mon + 1) \in 0..366
<1>1. mon \in {0, 1, 2, 3, 4, 5, 6, 7, 8, 9, 10, 11}
  OBVIOUS
<1> QED BY <1>1 DEF DaysBeforeMonth, MonthDays

\* The bounds of the closed form
LEMMA MonthBounds ==
    ASSUME NEW y, NEW mon, y \in Int, mon \in 0..12
    PROVE  DaysBeforeMonth(y, mon) \in Nat /\ DaysBeforeMonth(y, mon) <= 366
<1>1. mon \in {0, 1, 2, 3, 4, 5, 6, 7, 8, 9, 10, 11, 12}
  OBVIOUS
<1> QED BY <1>1 DEF DaysBeforeMonth

\* The recursive sum over the months exists and is the closed form.
LEMMA MonthStarts ==
    ASSUME NEW y \in Int, NEW mon \in 0..12
    PROVE  MonthStart(y, mon) = DaysBeforeMonth(y, mon)
<1> DEFINE Eq(f) == f = [k \in 0..12 |-> IF k = 0 THEN 0 ELSE f[k - 1] + MonthDays(y, k - 1)]
           before == CHOOSE f : Eq(f)
<1>1. \E f : Eq(f)
  <2> DEFINE f == [k \in 0..12 |-> DaysBeforeMonth(y, k)]
  <2>1. ASSUME NEW k \in 0..12
        PROVE  DaysBeforeMonth(y, k) = IF k = 0 THEN 0 ELSE f[k - 1] + MonthDays(y, k - 1)
    <3>1. CASE k = 0
      BY <3>1 DEF DaysBeforeMonth
    <3>2. CASE k # 0
      <4>1. k - 1 \in 0..11 /\ (k - 1) + 1 = k
        BY <3>2
      <4>2. f[k - 1] = DaysBeforeMonth(y, k - 1)
        BY <4>1
      <4> HIDE DEF f
      <4> QED BY <3>2, <4>1, <4>2, NextMonth
    <3> QED BY <3>1, <3>2
  <2>2. Eq(f)
    BY <2>1
  <2> QED BY <2>2
<1>2. Eq(before)
  BY <1>1
<1>3. MonthStart(y, mon) = before[mon]
  BY DEF MonthStart
<1> HIDE DEF before
<1> DEFINE T == {n \in Nat : n \in 0..12 => before[n] = DaysBeforeMonth(y, n)}
<1>4. 0 \in T
  BY <1>2 DEF DaysBeforeMonth
<1>5. ASSUME NEW n \in T PROVE n + 1 \in T
  <2>1. SUFFICES ASSUME n + 1 \in 0..12 PROVE before[n + 1] = DaysBeforeMonth(y, n + 1)
    OBVIOUS
  <2>2. n \in 0..11 /\ n + 1 # 0 /\ (n + 1) - 1 = n
    BY <2>1
  <2>3. before[n + 1] = before[n] + MonthDays(y, n)
    BY <1>2, <2>1, <2>2
  <2> QED BY <2>2, <2>3, NextMonth
<1>6. \A n \in Nat : n \in T
  <2>1. T \in SUBSET Nat
    OBVIOUS
  <2> HIDE DEF T
  <2> QED BY <1>4, <1>5, <2>1, Induction
<1> QED BY <1>3, <1>6

\* Later years and months begin later.
LEMMA YearsGrow ==
    ASSUME NEW j \in 1970..2107, NEW k \in 1970..2107, j < k
    PROVE  DaysBefore(j) < DaysBefore(k)
<1>1. (j - 1969) \div 4 <= (k - 1969) \div 4
  OBVIOUS
<1> QED BY <1>1 DEF DaysBefore

\* The same of the months of a year
LEMMA MonthsGrow ==
    ASSUME NEW y, NEW j \in 0..12, NEW k \in 0..12, j < k
    PROVE  DaysBeforeMonth(y, j) < DaysBeforeMonth(y, k)
<1> DEFINE table == <<0, 31, 59, 90, 120, 151, 181, 212, 243, 273, 304, 334, 365>>
<1>1. table[j + 1] < table[k + 1] /\ table[j + 1] \in Int /\ table[k + 1] \in Int
  <2>1. j \in {0, 1, 2, 3, 4, 5, 6, 7, 8, 9, 10, 11} /\ k \in {1, 2, 3, 4, 5, 6, 7, 8, 9, 10, 11, 12}
    OBVIOUS
  <2> QED BY <2>1
<1> HIDE DEF table
<1>2. DaysBeforeMonth(y, j) = table[j + 1] + (IF j > 1 /\ IsLeap(y) THEN 1 ELSE 0)
      /\ DaysBeforeMonth(y, k) = table[k + 1] + (IF k > 1 /\ IsLeap(y) THEN 1 ELSE 0)
  BY DEF DaysBeforeMonth, table
<1> QED BY <1>1, <1>2

\* The year of a day is the only one it lies in.
LEMMA YearOfDay ==
    ASSUME NEW y, NEW d, y \in 1970..2106, d \in Int, DaysBefore(y) <= d, d < DaysBefore(y) + YearDays(y)
    PROVE  y = CHOOSE k \in 1970..2106 : d \in YearStart[k]..YearStart[k + 1] - 1
<1>1. ASSUME NEW k \in 1970..2106
      PROVE  /\ k + 1 \in 1970..2107 /\ DaysBefore(k) \in Int /\ DaysBefore(k + 1) \in Int
             /\ YearStart[k] = DaysBefore(k) /\ YearStart[k + 1] = DaysBefore(k + 1)
             /\ DaysBefore(k + 1) = DaysBefore(k) + YearDays(k)
  <2> DEFINE z == k + 1
  <2>1. z \in 1970..2107 /\ Follows(k, z)
    BY DEF Follows
  <2> HIDE DEF z
  <2>2. DaysBefore(k) \in Int /\ YearDays(k) \in Int /\ DaysBefore(z) = DaysBefore(k) + YearDays(k)
    BY <2>1, NextYear
  <2>3. YearStart[k] = DaysBefore(k) /\ YearStart[z] = DaysBefore(z)
    BY <2>1, YearStarts
  <2> QED BY <2>1, <2>2, <2>3 DEF z
<1>2. ASSUME NEW k \in 1970..2106 PROVE d \in YearStart[k]..YearStart[k + 1] - 1 <=> k = y
  <2>1. /\ DaysBefore(k) \in Int /\ DaysBefore(k + 1) \in Int /\ DaysBefore(y) \in Int
        /\ DaysBefore(y + 1) \in Int /\ DaysBefore(y + 1) = DaysBefore(y) + YearDays(y)
        /\ YearStart[k] = DaysBefore(k) /\ YearStart[k + 1] = DaysBefore(k + 1)
    BY <1>1
  <2>2. CASE k = y
    BY <2>1, <2>2
  <2>3. CASE k < y
    <3>1. k + 1 = y \/ k + 1 < y
      BY <2>3
    <3>2. DaysBefore(k + 1) <= DaysBefore(y)
      BY <1>1, <2>1, <3>1, YearsGrow
    <3> QED BY <2>1, <2>3, <3>2
  <2>4. CASE k > y
    <3>1. y + 1 = k \/ y + 1 < k
      BY <2>4
    <3>2. DaysBefore(y + 1) <= DaysBefore(k)
      BY <1>1, <2>1, <3>1, YearsGrow
    <3> QED BY <2>1, <2>4, <3>2
  <2> QED BY <2>2, <2>3, <2>4
<1> DEFINE In(k) == d \in YearStart[k]..YearStart[k + 1] - 1
<1>3. \A k \in 1970..2106 : In(k) <=> k = y
  BY <1>2
<1> HIDE DEF In
<1>4. y = CHOOSE k \in 1970..2106 : In(k)
  BY <1>3
<1> QED BY <1>4 DEF In

\* The month of a day of a year is the only one it lies in.
LEMMA MonthOfDay ==
    ASSUME NEW y \in Int, NEW mon \in 0..11, NEW d \in Int,
           DaysBeforeMonth(y, mon) <= d, d < DaysBeforeMonth(y, mon + 1)
    PROVE  mon = CHOOSE k \in 0..11 : d \in MonthStart(y, k)..MonthStart(y, k + 1) - 1
<1>1. ASSUME NEW k \in 0..11
      PROVE  /\ k + 1 \in 0..12 /\ DaysBeforeMonth(y, k) \in Int /\ DaysBeforeMonth(y, k + 1) \in Int
             /\ MonthStart(y, k) = DaysBeforeMonth(y, k)
             /\ MonthStart(y, k + 1) = DaysBeforeMonth(y, k + 1)
  <2> DEFINE l == k + 1
  <2>1. k \in 0..12 /\ l \in 0..12
    OBVIOUS
  <2> HIDE DEF l
  <2>2. DaysBeforeMonth(y, k) \in Int /\ DaysBeforeMonth(y, l) \in Int
    BY <2>1, MonthBounds
  <2>3. MonthStart(y, k) = DaysBeforeMonth(y, k) /\ MonthStart(y, l) = DaysBeforeMonth(y, l)
    BY <2>1, MonthStarts
  <2> QED BY <2>1, <2>2, <2>3 DEF l
<1>2. ASSUME NEW k \in 0..11 PROVE d \in MonthStart(y, k)..MonthStart(y, k + 1) - 1 <=> k = mon
  <2>1. /\ DaysBeforeMonth(y, k) \in Int /\ DaysBeforeMonth(y, k + 1) \in Int
        /\ DaysBeforeMonth(y, mon) \in Int /\ DaysBeforeMonth(y, mon + 1) \in Int
        /\ MonthStart(y, k) = DaysBeforeMonth(y, k)
        /\ MonthStart(y, k + 1) = DaysBeforeMonth(y, k + 1)
    BY <1>1
  <2>2. CASE k = mon
    BY <2>1, <2>2
  <2>3. CASE k < mon
    <3>1. k + 1 = mon \/ k + 1 < mon
      BY <2>3
    <3>2. DaysBeforeMonth(y, k + 1) <= DaysBeforeMonth(y, mon)
      BY <1>1, <2>1, <3>1, MonthsGrow
    <3> QED BY <2>1, <2>3, <3>2
  <2>4. CASE k > mon
    <3>1. mon + 1 = k \/ mon + 1 < k
      BY <2>4
    <3>2. DaysBeforeMonth(y, mon + 1) <= DaysBeforeMonth(y, k)
      BY <1>1, <2>1, <3>1, MonthsGrow
    <3> QED BY <2>1, <2>4, <3>2
  <2> QED BY <2>2, <2>3, <2>4
<1> DEFINE In(k) == d \in MonthStart(y, k)..MonthStart(y, k + 1) - 1
<1>3. \A k \in 0..11 : In(k) <=> k = mon
  BY <1>2
<1> HIDE DEF In
<1>4. mon = CHOOSE k \in 0..11 : In(k)
  BY <1>3
<1> QED BY <1>4 DEF In

\* A date that the calendar of a POSIX time has
Calendar(t) ==
    /\ t \in Stamps /\ t.year \in 1970..2106 /\ t.mon \in 0..11
    /\ t.mday \in 1..MonthDays(t.year, t.mon)
    /\ t.hour \in 0..23 /\ t.min \in 0..59 /\ t.sec \in 0..59

\* The day of such a date lies in its month, and the month in its year.
LEMMA DayLies ==
    ASSUME NEW t, Calendar(t)
    PROVE  LET m == DaysBeforeMonth(t.year, t.mon)
           IN  /\ Day(t) = DaysBefore(t.year) + m + t.mday - 1 /\ Day(t) \in Int
               /\ DaysBefore(t.year) \in Nat /\ m \in Nat
               /\ m + t.mday - 1 < DaysBeforeMonth(t.year, t.mon + 1)
               /\ m + t.mday - 1 < YearDays(t.year)
<1> DEFINE y == t.year
           mon == t.mon
           m == DaysBeforeMonth(y, mon)
<1>1. y \in 1970..2106 /\ y \in Int /\ mon \in 0..11 /\ t.mday \in 1..MonthDays(y, mon)
  BY DEF Calendar
<1>2. /\ DaysBeforeMonth(y, mon + 1) = m + MonthDays(y, mon) /\ m \in 0..335
      /\ MonthDays(y, mon) \in 28..31 /\ DaysBeforeMonth(y, mon + 1) \in 0..366
  <2> HIDE DEF y, mon
  <2> QED BY <1>1, NextMonth, SMTT(30) DEF m
<1>3. DaysBefore(y) \in Nat /\ YearDays(y) \in {365, 366}
  <2>1. Follows(y, y + 1)
    BY <1>1 DEF Follows
  <2> QED BY <2>1, NextYear
<1>4. Day(t) = DaysBefore(y) + m + t.mday - 1
  <2>1. YearStart[y] = DaysBefore(y) /\ MonthStart(y, mon) = m
    BY <1>1, YearStarts, MonthStarts
  <2> QED BY <2>1 DEF Day
<1>5. DaysBeforeMonth(y, mon + 1) <= YearDays(y)
  <2>1. DaysBeforeMonth(y, 12) = YearDays(y)
    BY DEF DaysBeforeMonth, YearDays
  <2>2. mon + 1 = 12 \/ (mon + 1 < 12 /\ mon + 1 \in 0..12)
    BY <1>1
  <2>3. CASE mon + 1 = 12
    BY <1>3, <2>1, <2>3
  <2>4. CASE mon + 1 < 12 /\ mon + 1 \in 0..12
    <3>1. DaysBeforeMonth(y, mon + 1) < DaysBeforeMonth(y, 12)
      BY <2>4, MonthsGrow
    <3> QED BY <1>2, <1>3, <2>1, <3>1
  <2> QED BY <2>2, <2>3, <2>4
<1> HIDE DEF m, y, mon
<1>6. m + t.mday - 1 < DaysBeforeMonth(y, mon + 1) /\ m \in Nat /\ t.mday \in Int
  BY <1>1, <1>2
<1>7. m + t.mday - 1 < YearDays(y) /\ DaysBefore(y) + m + t.mday - 1 \in Int
  BY <1>2, <1>3, <1>5, <1>6
<1> QED BY <1>3, <1>4, <1>6, <1>7 DEF m, y, mon

\* The seconds of a day, divided
LEMMA TimeOfDay ==
    ASSUME NEW h, NEW m, NEW s, h \in 0..23, m \in 0..59, s \in 0..59
    PROVE  LET n == h * 3600 + m * 60 + s
           IN  n \div 3600 = h /\ (n \div 60) % 60 = m /\ n % 60 = s
<1> DEFINE n == h * 3600 + m * 60 + s
<1>1. n \div 3600 = h
  OBVIOUS
<1>2. n \div 60 = h * 60 + m
  OBVIOUS
<1>3. (h * 60 + m) % 60 = m
  OBVIOUS
<1>4. n % 60 = s
  OBVIOUS
<1> QED BY <1>1, <1>2, <1>3, <1>4

(* gmtime is the inverse of atcacert_date_enc_posix, for every date that the *)
(* calendar has.                                                             *)
THEOREM PosixReadsBack ==
    ASSUME NEW t, Calendar(t)
    PROVE  GmTime(PosixTime(t)) = t
<1> DEFINE p == PosixTime(t)
           y == t.year
           d == p.days - YearStart[y]
           m == t.mon
<1>1. /\ t \in Stamps /\ y \in 1970..2106 /\ y \in Int /\ m \in 0..11
      /\ t.hour \in 0..23 /\ t.min \in 0..59 /\ t.sec \in 0..59 /\ t.mday \in Int /\ t.mday >= 1
  BY DEF Calendar, Stamps
<1>2. p.days = Day(t) /\ p.secs = t.hour * 3600 + t.min * 60 + t.sec
  BY DEF PosixTime, SecondOfDay
<1>3. /\ p.days = DaysBefore(y) + DaysBeforeMonth(y, m) + t.mday - 1 /\ p.days \in Int
      /\ DaysBefore(y) \in Nat /\ DaysBeforeMonth(y, m) \in Nat
      /\ DaysBeforeMonth(y, m) + t.mday - 1 < DaysBeforeMonth(y, m + 1)
      /\ DaysBeforeMonth(y, m) + t.mday - 1 < YearDays(y)
  BY <1>2, DayLies
<1>4. YearStart[y] = DaysBefore(y) /\ MonthStart(y, m) = DaysBeforeMonth(y, m)
  BY <1>1, YearStarts, MonthStarts
<1>5. YearDays(y) \in Int /\ DaysBeforeMonth(y, m + 1) \in Int
  <2>1. YearDays(y) \in Int
    BY DEF YearDays
  <2> DEFINE l == m + 1
  <2>2. l \in 0..12
    BY <1>1
  <2> HIDE DEF y, l
  <2>3. DaysBeforeMonth(y, l) \in Int
    BY <1>1, <2>2, MonthBounds
  <2> QED BY <2>1, <2>3 DEF l
<1>6. y = CHOOSE k \in 1970..2106 : p.days \in YearStart[k]..YearStart[k + 1] - 1
  <2> DEFINE day == p.days
  <2>1. day \in Int /\ DaysBefore(y) <= day /\ day < DaysBefore(y) + YearDays(y)
    <3> HIDE DEF p, y, m
    <3> QED BY <1>1, <1>3, <1>5
  <2>2. y \in 1970..2106
    BY <1>1
  <2> HIDE DEF day, y
  <2>3. y = CHOOSE k \in 1970..2106 : day \in YearStart[k]..YearStart[k + 1] - 1
    BY <2>1, <2>2, YearOfDay
  <2> QED BY <2>3 DEF day
<1>7. d = DaysBeforeMonth(y, m) + t.mday - 1 /\ d \in Int
  <2> HIDE DEF p, y, m
  <2> QED BY <1>1, <1>3, <1>4
<1>8. m = CHOOSE k \in 0..11 : d \in MonthStart(y, k)..MonthStart(y, k + 1) - 1
  <2>1. DaysBeforeMonth(y, m) <= d /\ d < DaysBeforeMonth(y, m + 1)
    <3> HIDE DEF d, y, m
    <3> QED BY <1>1, <1>3, <1>7
  <2> HIDE DEF d, y, m
  <2> QED BY <1>1, <1>7, <2>1, MonthOfDay
<1>9. d - MonthStart(y, m) + 1 = t.mday
  <2> HIDE DEF d, y, m
  <2> QED BY <1>1, <1>3, <1>4, <1>7
<1>10. p.secs \div 3600 = t.hour /\ (p.secs \div 60) % 60 = t.min /\ p.secs % 60 = t.sec
  <2> DEFINE n == t.hour * 3600 + t.min * 60 + t.sec
  <2>1. n \div 3600 = t.hour /\ (n \div 60) % 60 = t.min /\ n % 60 = t.sec
    BY <1>1, TimeOfDay
  <2>2. p.secs = n
    BY <1>2
  <2> HIDE DEF n, p
  <2> QED BY <2>1, <2>2
<1>11. GmTime(p) = Stamp(y, m, d - MonthStart(y, m) + 1, p.secs \div 3600, (p.secs \div 60) % 60, p.secs % 60)
  <2> DEFINE yy == CHOOSE k \in 1970..2106 : p.days \in YearStart[k]..YearStart[k + 1] - 1
             dd == p.days - YearStart[yy]
             mm == CHOOSE k \in 0..11 : dd \in MonthStart(yy, k)..MonthStart(yy, k + 1) - 1
  <2>1. GmTime(p) = Stamp(yy, mm, dd - MonthStart(yy, mm) + 1,
                          p.secs \div 3600, (p.secs \div 60) % 60, p.secs % 60)
    BY DEF GmTime
  <2>2. yy = y /\ dd = d /\ mm = m
    BY <1>6, <1>8
  <2> HIDE DEF yy, dd, mm
  <2> QED BY <2>1, <2>2
<1>12. GmTime(p) = Stamp(t.year, t.mon, t.mday, t.hour, t.min, t.sec)
  <2> HIDE DEF p, d
  <2> QED BY <1>9, <1>10, <1>11
<1>13. Stamp(t.year, t.mon, t.mday, t.hour, t.min, t.sec) = t
  BY <1>1 DEF Stamp, Stamps
<1> QED BY <1>12, <1>13

-----------------------------------------------------------------------------
(* Dates in the formats of a certificate *)

\* A format reads back a date that is in its range.
LEMMA FormatReadsBack ==
    ASSUME NEW format \in Formats, NEW t \in Stamps,
           format = "posix" => Calendar(t), format = "utc" => t.year \in 1950..2049
    PROVE  Decoded(format, Encoded(format, t)) = t
<1>1. CASE format = "utc"
  <2>1. t.year \in 1950..2049
    BY <1>1
  <2>2. Century(t.year % 100) = t.year
    <3>1. CASE t.year < 2000
      <4>1. t.year % 100 = t.year - 1900 BY <2>1, <3>1
      <4> QED BY <2>1, <3>1, <4>1 DEF Century
    <3>2. CASE t.year >= 2000
      <4>1. t.year % 100 = t.year - 2000 BY <2>1, <3>2
      <4> QED BY <2>1, <3>2, <4>1 DEF Century
    <3> QED BY <2>1, <3>1, <3>2
  <2> DEFINE u == [t EXCEPT !.year = t.year % 100]
  <2>3. u.year = t.year % 100 /\ u \in Stamps
        /\ \A f \in {"mon", "mday", "hour", "min", "sec"} : u[f] = t[f]
    BY DEF Stamps
  <2>4. Encoded(format, t) = u
    BY <1>1 DEF Encoded
  <2> HIDE DEF u
  <2>5. Decoded(format, u) = [u EXCEPT !.year = t.year]
    BY <1>1, <2>2, <2>3 DEF Decoded
  <2>6. [u EXCEPT !.year = t.year] \in Stamps
        /\ \A f \in {"year", "mon", "mday", "hour", "min", "sec"} :
              [u EXCEPT !.year = t.year][f] = t[f]
    BY <2>3 DEF Stamps
  <2>7. [u EXCEPT !.year = t.year] = t
    BY <2>6 DEF Stamps
  <2> QED BY <2>4, <2>5, <2>7
<1>2. CASE format = "posix"
  BY <1>2, PosixReadsBack DEF Encoded, Decoded
<1>3. CASE format \notin {"utc", "posix"}
  BY <1>3 DEF Encoded, Decoded, Formats
<1> QED BY <1>1, <1>2, <1>3

\* A format that can hold a date reads it back.
LEMMA ReadBack ==
    ASSUME NEW format \in Formats, NEW t \in Stamps, Encodes(format, t), t.sec \in 0..59
    PROVE  Decoded(format, Encoded(format, t)) = t
<1>1. CASE format = "posix"
  <2>1. InPosix(t) /\ t.hour \in 0..23 /\ t.min \in 0..59
    BY <1>1 DEF Encodes
  <2>2. t.year \in 1970..2106 /\ t.mon \in 0..11 /\ t.mday \in 1..MonthDays(t.year, t.mon) - 1
    BY <2>1 DEF InPosix, DayIsValid
  <2>3. t.mday \in 1..MonthDays(t.year, t.mon)
    <3> DEFINE n == MonthDays(t.year, t.mon)
    <3>1. n \in Int
      <4> DEFINE y == t.year
                 m == t.mon
      <4>1. y \in Int /\ m \in 0..11
        BY <2>2
      <4> HIDE DEF y, m
      <4>2. MonthDays(y, m) \in Int
        BY <4>1, NextMonth, SMTT(30)
      <4> QED BY <4>2 DEF y, m
    <3> HIDE DEF n
    <3>2. t.mday \in 1..n - 1
      BY <2>2 DEF n
    <3>3. t.mday \in 1..n
      BY <3>1, <3>2
    <3> QED BY <3>3 DEF n
  <2> QED BY <1>1, <2>1, <2>2, <2>3, FormatReadsBack DEF Calendar
<1>2. CASE format = "utc"
  BY <1>2, FormatReadsBack DEF Encodes, Years
<1>3. CASE format \notin {"utc", "posix"}
  BY <1>3, FormatReadsBack
<1> QED BY <1>1, <1>2, <1>3

\* The dates a compressed certificate stands for are dates of the certificate.
LEMMA CompDates ==
    ASSUME NEW c \in CompCerts, NEW format \in Formats
    PROVE  /\ CompYears(c) \in 0..127
           /\ CompIssue(c) \in Stamps /\ CompIssue(c).year \in 2000..2127
           /\ CompIssue(c).min = 0 /\ CompIssue(c).sec = 0
           /\ CompExpire(c, format) \in Stamps /\ CompExpire(c, format).sec \in 0..59
           /\ CompYears(c) = 0 => CompExpire(c, format) = MaxDate(format)
           /\ CompYears(c) # 0 =>
                 /\ CompExpire(c, format) # MaxDate(format)
                 /\ SameButYear(CompIssue(c), CompExpire(c, format))
                 /\ CompExpire(c, format).year - CompIssue(c).year = CompYears(c)
<1>1. CompYears(c) \in 0..127
  BY DEF CompYears, CompCerts, Extended
<1>2. /\ CompIssue(c) \in Stamps /\ CompIssue(c).year \in 2000..2127
      /\ CompIssue(c).min = 0 /\ CompIssue(c).sec = 0
  BY DEF CompIssue, Stamp, Stamps, CompCerts, Extended
<1>3. MaxDate(format) \in Stamps /\ MaxDate(format).sec \in 0..59 /\ MaxDate(format).min # 0
  BY DEF MaxDate, Stamp, Stamps, Formats
<1>4. CASE CompYears(c) = 0
  BY <1>1, <1>2, <1>3, <1>4 DEF CompExpire
<1>5. CASE CompYears(c) # 0
  <2> DEFINE i == CompIssue(c)
             e == CompExpire(c, format)
  <2>1. e = [i EXCEPT !.year = i.year + CompYears(c)]
    BY <1>5 DEF CompExpire
  <2> HIDE DEF i, e
  <2>2. i \in Stamps /\ i.year \in 2000..2127 /\ i.min = 0 /\ i.sec = 0
    BY <1>2 DEF i
  <2>3. e \in Stamps /\ e.year = i.year + CompYears(c) /\ e.min = 0 /\ e.sec = 0
    BY <1>1, <2>1, <2>2 DEF Stamps
  <2>4. SameButYear(i, e)
    BY <2>1, <2>3 DEF SameButYear
  <2> QED BY <1>1, <1>2, <1>3, <1>5, <2>2, <2>3, <2>4 DEF i, e
<1> QED BY <1>4, <1>5

-----------------------------------------------------------------------------
(* What a certificate built of the device's compressed certificate holds *)
Holds(c) ==
    /\ def.has_issue => /\ Encodes(def.issue_format, CompIssue(c))
                        /\ cert.issue = Encoded(def.issue_format, CompIssue(c))
    /\ def.has_expire =>
          /\ Encodes(def.expire_format, CompExpire(c, def.expire_format))
          /\ cert.expire = Encoded(def.expire_format, CompExpire(c, def.expire_format))

IInv ==
    /\ def \in Defs
    /\ DOMAIN cert = {"issue", "expire", "sn"}
    /\ pc \in {"sign", "compress", "build", "end"}
    /\ pc = "sign" => start = cert
    /\ OnDevice => /\ start \in CompCerts
                   /\ pc = "build" => comp = start /\ cert.sn = NoComp
                   /\ pc = "compress" => comp = start /\ Holds(start)
                   /\ ReadsBack

\* The first states have the invariant.
LEMMA Starts == Init => IInv
<1> SUFFICES ASSUME Init PROVE IInv
  OBVIOUS
<1>1. CASE pc = "sign"
  <2>1. DOMAIN cert = {"issue", "expire", "sn"} /\ start = cert
    BY <1>1 DEF Init
  <2> QED BY <1>1, <2>1 DEF Init, IInv, OnDevice
<1>2. CASE pc # "sign"
  <2>1. pc = "build" /\ comp \in Stored /\ start = comp
        /\ cert = [issue |-> "template", expire |-> "template", sn |-> NoComp]
    BY <1>2 DEF Init
  <2> QED BY <2>1, StoredAssumption DEF Init, IInv, ReadsBack
<1> QED BY <1>1, <1>2

(* The heart of it: compressing what was built of c gives c's dates. *)
LEMMA Recompressed ==
    ASSUME def \in Defs, NEW c \in CompCerts, Holds(c),
           def.has_issue, def.has_expire, def.diff_ok
    PROVE  LET years == CompressedYears.years
               version == VersionFor(IssueIn(cert), years)
           IN  /\ CompressedYears.status = "SUCCESS"
               /\ EncodesComp(version, IssueIn(cert), years)
               /\ CompIssue(EncComp(version, IssueIn(cert), years)) = CompIssue(c)
               /\ CompYears(EncComp(version, IssueIn(cert), years)) = CompYears(c)
<1> DEFINE i == CompIssue(c)
           e == CompExpire(c, def.expire_format)
           n == CompYears(c)
<1>1. def.issue_format \in Formats /\ def.expire_format \in Formats
  BY DefsAssumption
<1>2. i \in Stamps /\ i.year \in 2000..2127 /\ i.min = 0 /\ i.sec = 0 /\ n \in 0..127
      /\ e \in Stamps /\ e.sec \in 0..59
  BY <1>1, CompDates
<1>3. IssueIn(cert) = i
  <2>1. cert.issue = Encoded(def.issue_format, i) /\ Encodes(def.issue_format, i)
    BY DEF Holds
  <2>2. i \in Stamps /\ i.sec \in 0..59
    BY <1>2
  <2> HIDE DEF i
  <2> QED BY <1>1, <2>1, <2>2, ReadBack DEF IssueIn
<1>4. ExpireIn(cert) = e
  <2>1. cert.expire = Encoded(def.expire_format, e) /\ Encodes(def.expire_format, e)
    BY DEF Holds
  <2> HIDE DEF e
  <2> QED BY <1>1, <1>2, <2>1, ReadBack DEF ExpireIn
<1>5. CompressedYears.status = "SUCCESS" /\ CompressedYears.years = n
  <2>1. CASE n = 0
    <3>1. e = MaxDate(def.expire_format)
      BY <1>1, <2>1, CompDates
    <3> HIDE DEF e, n
    <3> QED BY <1>3, <1>4, <2>1, <3>1 DEF CompressedYears
  <2>2. CASE n # 0
    <3>1. e # MaxDate(def.expire_format) /\ SameButYear(i, e) /\ e.year - i.year = n
      BY <1>1, <2>2, CompDates
    <3> HIDE DEF e, n, i
    <3> QED BY <1>2, <1>3, <1>4, <2>2, <3>1 DEF CompressedYears
  <2> QED BY <2>1, <2>2
<1>6. EncodesComp(VersionFor(i, n), i, n)
  <2>1. Encodes(def.issue_format, i)
    BY DEF Holds
  <2>2. i.mday \in 0..31
    BY DEF CompIssue, Stamp, CompCerts
  <2> HIDE DEF i, n
  <2>3. i.hour \in 0..23
    BY <2>1 DEF Encodes
  <2>4. InText(i)
    <3>1. CASE def.issue_format = "posix"
      <4>1. i.mon \in 0..11 /\ i.mday >= 1
        BY <2>1, <2>2, <3>1 DEF Encodes, InPosix, DayIsValid
      <4> QED BY <2>2, <4>1 DEF InText
    <3>2. CASE def.issue_format # "posix"
      BY <2>1, <3>2 DEF Encodes
    <3> QED BY <3>1, <3>2
  <2> QED BY <1>2, <2>3, <2>4 DEF EncodesComp, VersionFor
<1>7. CompYears(EncComp(VersionFor(i, n), i, n)) = n
      /\ CompIssue(EncComp(VersionFor(i, n), i, n)) = Stamp(i.year, i.mon, i.mday, i.hour, 0, 0)
  <2> HIDE DEF i, n
  <2> QED BY <1>2, <1>6, DatesReadBack
<1>8. Stamp(i.year, i.mon, i.mday, i.hour, 0, 0) = i
  BY DEF CompIssue, Stamp
<1> HIDE DEF i, e, n
<1>9. CompIssue(EncComp(VersionFor(i, n), i, n)) = i
  BY <1>7, <1>8
<1> QED BY <1>3, <1>5, <1>6, <1>7, <1>9 DEF i, n

\* Every step keeps the invariant.
LEMMA Keeps == ASSUME IInv, [Next]_vars PROVE IInv'
<1>1. CASE GenCertSn
  <2>1. pc = "sign" /\ start = cert /\ DOMAIN cert = {"issue", "expire", "sn"}
    BY <1>1 DEF GenCertSn, IInv
  <2>2. DOMAIN cert' = {"issue", "expire", "sn"} /\ start' = cert' /\ def' = def
        /\ pc' \in {"compress", "end"}
    BY <1>1, <2>1 DEF GenCertSn
  <2> QED BY <2>2 DEF IInv, OnDevice
<1>2. CASE Compress
  <2>1. pc = "compress" /\ UNCHANGED <<def, cert, start>> /\ pc' \in {"build", "end"}
    BY <1>2 DEF Compress
  <2>2. CASE ~OnDevice
    BY <2>1, <2>2 DEF IInv, OnDevice
  <2>3. CASE OnDevice
    <3>1. start \in CompCerts /\ Holds(start) /\ start # cert
      BY <2>1, <2>3 DEF IInv, OnDevice
    <3>2. pc' = "end"
      BY <1>2, <3>1 DEF Compress
    <3>3. ReadsBack'
      <4>1. SUFFICES ASSUME def.has_issue, def.has_expire, def.diff_ok
                     PROVE  /\ status' = "SUCCESS"
                            /\ CompIssue(comp') = CompIssue(start)
                            /\ CompYears(comp') = CompYears(start)
        BY <2>1 DEF ReadsBack, CompIssue, CompYears, Extended
      <4> DEFINE years == CompressedYears.years
                 version == VersionFor(IssueIn(cert), years)
      <4>2. /\ CompressedYears.status = "SUCCESS"
            /\ EncodesComp(version, IssueIn(cert), years)
            /\ CompIssue(EncComp(version, IssueIn(cert), years)) = CompIssue(start)
            /\ CompYears(EncComp(version, IssueIn(cert), years)) = CompYears(start)
        BY <3>1, <4>1, Recompressed DEF IInv
      <4>3. status' = "SUCCESS" /\ comp' = EncComp(version, IssueIn(cert), years)
        BY <1>2, <4>1, <4>2 DEF Compress
      <4> QED BY <4>2, <4>3
    <3> QED BY <2>1, <3>1, <3>2, <3>3 DEF IInv, OnDevice
  <2> QED BY <2>2, <2>3
<1>3. CASE Build
  <2>1. pc = "build" /\ UNCHANGED <<def, comp, start>> /\ pc' \in {"compress", "end"}
    BY <1>3 DEF Build
  <2>2. DOMAIN cert' = {"issue", "expire", "sn"}
    BY <1>3 DEF Build, IInv
  <2>3. CASE ~OnDevice
    BY <2>1, <2>2, <2>3 DEF IInv, OnDevice
  <2>4. CASE OnDevice
    <3>1. start \in CompCerts /\ comp = start /\ cert.sn = NoComp
      BY <2>1, <2>4 DEF IInv
    <3>2. CASE status' = "SUCCESS"
      <4> DEFINE issue == CompIssue(start)
                 expire == CompExpire(start, def.expire_format)
      <4> HIDE DEF issue, expire
      <4>1. /\ def.has_issue => Encodes(def.issue_format, issue)
            /\ def.has_expire => Encodes(def.expire_format, expire)
        BY <1>3, <3>1, <3>2 DEF Build, issue, expire
      <4>2. cert' = [[cert EXCEPT !.issue = IF def.has_issue
                                            THEN Encoded(def.issue_format, issue) ELSE @] EXCEPT
                        !.expire = IF def.has_expire
                                   THEN Encoded(def.expire_format, expire) ELSE @,
                        !.sn = IF def.hashed_sn THEN SnOf(comp) ELSE StoredSn]
        BY <1>3, <3>1, <3>2 DEF Build, issue, expire
      <4>3. DOMAIN cert = {"issue", "expire", "sn"}
        BY DEF IInv
      <4>4. /\ def.has_issue => cert'.issue = Encoded(def.issue_format, issue)
            /\ def.has_expire => cert'.expire = Encoded(def.expire_format, expire)
        BY <4>2, <4>3
      <4>5. Holds(start)'
        BY <2>1, <4>1, <4>4 DEF Holds, CompIssue, CompExpire, CompYears, Extended, issue, expire
      <4>6. pc' = "compress"
        BY <1>3, <3>1, <3>2 DEF Build
      <4> QED BY <2>1, <2>2, <3>1, <4>5, <4>6 DEF IInv, OnDevice, ReadsBack
    <3>3. CASE status' # "SUCCESS"
      <4>1. pc' = "end" /\ cert'.sn = cert.sn
        BY <1>3, <3>3 DEF Build, IInv
      <4> QED BY <2>1, <2>2, <3>1, <4>1 DEF IInv, OnDevice, ReadsBack
    <3> QED BY <3>2, <3>3
  <2> QED BY <2>3, <2>4
<1>4. CASE UNCHANGED vars
  BY <1>4 DEF IInv, vars, OnDevice, ReadsBack, Holds, CompIssue, CompYears, Extended
<1> QED BY <1>1, <1>2, <1>3, <1>4 DEF Next

(* Whatever compressed certificate a device holds, and whichever definitions *)
(* are in use: the certificate built of it is compressed to the same dates   *)
(* again.                                                                    *)
THEOREM ReadsBackAlways == Spec => []ReadsBack
<1>1. IInv => ReadsBack
  BY DEF IInv, ReadsBack
<1>2. IInv /\ [Next]_vars => IInv'
  BY Keeps
<1> QED BY Starts, <1>1, <1>2, PTL DEF Spec

-----------------------------------------------------------------------------
(* ComesBack: what the certifier signed, cut down and built again *)

(* A certificate is compressed as it was signed *)
Began ==
    LET issue == IssueIn(start)
        expire == ExpireIn(start)
    IN  /\ issue \in Dates /\ Certifiable(def.issue_format, issue)
        /\ start.issue = Encoded(def.issue_format, issue)
        /\ expire \in Dates /\ Certifiable(def.expire_format, expire)
        /\ start.expire = Encoded(def.expire_format, expire)

\* The serial number that was signed
SerialMade ==
    LET years == CalcYears(IssueIn(start), ExpireIn(start))
        version == VersionFor(IssueIn(start), years)
    IN  IF def.hashed_sn
        THEN def.has_issue /\ def.has_expire /\ start.sn = SnOf(EncComp(version, IssueIn(start), years))
        ELSE start.sn = StoredSn

\* What the device keeps of it
Compressed ==
    LET issue == IF def.has_issue THEN IssueIn(cert) ELSE DefaultIssue
        years == CompressedYears.years
        version == VersionFor(issue, years)
    IN  /\ CompressedYears.status = "SUCCESS"
        /\ EncodesComp(version, issue, years)
        /\ comp = EncComp(version, issue, years)

SignedInv ==
    ~OnDevice =>
        /\ Began
        /\ pc \in {"sign", "compress"} => start = cert /\ comp = NoComp
        /\ pc = "compress" => SerialMade
        /\ pc = "build" => start = cert /\ SerialMade /\ Compressed
        /\ ComesBack

\* What the certifier's dates have in common with the others
LEMMA DatesAreStamps == ASSUME NEW t \in Dates PROVE t \in Stamps
<1>1. /\ t.year \in 0..9999 /\ t.mon \in 0..11 /\ t.mday \in 1..31 /\ t.hour \in 0..23
      /\ t.min \in 0..59 /\ t.sec \in 0..59
  BY DEF Dates
<1>2. t = [year |-> t.year, mon |-> t.mon, mday |-> t.mday, hour |-> t.hour,
           min |-> t.min, sec |-> t.sec]
  BY DEF Dates
<1>3. t.year \in Int /\ t.mon \in Int /\ t.mday \in Int
  <2>1. \A n : n \in 0..9999 => n \in Int
    OBVIOUS
  <2>2. t.mon \in Int /\ t.mday \in Int
    BY <1>1
  <2> DEFINE y == t.year
  <2>3. y \in 0..9999
    BY <1>1
  <2> HIDE DEF y
  <2>4. y \in Int
    BY <2>1, <2>3
  <2> QED BY <2>2, <2>4 DEF y
<1>4. t.hour \in Int /\ t.min \in Int /\ t.sec \in Int
  BY <1>1
<1> QED BY <1>2, <1>3, <1>4 DEF Stamps

\* A date that can be certified is read back from its field.
LEMMA CertifiedReadsBack ==
    ASSUME NEW format \in Formats, NEW t \in Dates, Certifiable(format, t)
    PROVE  Decoded(format, Encoded(format, t)) = t
<1>1. t \in Stamps
  BY DatesAreStamps
<1>2. format = "posix" => Calendar(t)
  BY <1>1 DEF Calendar, Certifiable, Dates
<1>3. format = "utc" => t.year \in 1950..2049
  BY DEF Certifiable, Years
<1> QED BY <1>1, <1>2, <1>3, FormatReadsBack

\* A POSIX date that is not at an edge can be encoded: the year 2106 has no other.
LEMMA PosixEncodes ==
    ASSUME NEW t \in Dates, Certifiable("posix", t), ~LastOfPosix("posix", t)
    PROVE  Encodes("posix", t)
<1>1. /\ t.year \in 1970..2105 /\ t.mon \in 0..11 /\ t.hour \in 0..23 /\ t.min \in 0..59
      /\ t.mday \in 1..MonthDays(t.year, t.mon) /\ t.mday # MonthDays(t.year, t.mon)
  BY DEF Certifiable, LastOfPosix, Dates
<1>2. Calendar(t)
  BY <1>1, DatesAreStamps DEF Calendar, Dates
<1>3. DayIsValid(t)
  <2> DEFINE n == MonthDays(t.year, t.mon)
  <2>1. n \in Int
    <3> DEFINE y == t.year
               m == t.mon
    <3>1. y \in Int /\ m \in 0..11
      BY <1>1
    <3> HIDE DEF y, m
    <3>2. MonthDays(y, m) \in Int
      BY <3>1, NextMonth, SMTT(30)
    <3> QED BY <3>2 DEF y, m
  <2> HIDE DEF n
  <2>2. t.mday \in 1..n /\ t.mday # n
    BY <1>1 DEF n
  <2>3. t.mday \in 1..n - 1
    BY <2>1, <2>2
  <2> QED BY <2>3 DEF DayIsValid, n
<1>4. Day(t) \in Int /\ Day(t) < PosixEnd.days
  <2> DEFINE y == t.year
             z == y + 1
             m == DaysBeforeMonth(y, t.mon)
             d == Day(t)
  <2>1. d = DaysBefore(y) + m + t.mday - 1 /\ d \in Int /\ m + t.mday - 1 < YearDays(y) /\ m \in Nat
    BY <1>2, DayLies
  <2>2. y \in 1970..2105 /\ z \in 1971..2106 /\ Follows(y, z) /\ t.mday \in Int
    BY <1>1, <1>2 DEF Follows, Calendar, Stamps
  <2> HIDE DEF y, z, m, d
  <2>3. DaysBefore(z) = DaysBefore(y) + YearDays(y) /\ DaysBefore(y) \in Int /\ YearDays(y) \in Int
    BY <2>2, NextYear
  <2>4. DaysBefore(z) <= 49674
    BY <2>2 DEF DaysBefore
  <2>5. d < 49710
    BY <2>1, <2>2, <2>3, <2>4
  <2> QED BY <2>1, <2>5 DEF d, PosixEnd
<1>5. InPosix(t)
  BY <1>1, <1>3, <1>4 DEF InPosix, PosixTime
<1> QED BY <1>1, <1>5 DEF Encodes

\* A certified date that is not at an edge can be encoded.
LEMMA CertifiedEncodes ==
    ASSUME NEW format \in Formats, NEW t \in Dates, Certifiable(format, t), ~LastOfPosix(format, t)
    PROVE  Encodes(format, t)
<1>1. CASE format = "posix"
  BY <1>1, PosixEncodes
<1>2. CASE format # "posix"
  BY <1>2 DEF Encodes, InText, Certifiable, Dates
<1> QED BY <1>1, <1>2

\* The first states of a certificate that is signed have the invariant.
LEMMA StartsSigned == Init => SignedInv
<1> SUFFICES ASSUME Init, ~OnDevice PROVE SignedInv
  BY DEF SignedInv
<1>1. pc = "sign"
  <2>1. ASSUME comp \in Stored, start = comp PROVE FALSE
    BY <2>1, StoredAssumption DEF CompCerts, OnDevice
  <2> QED BY <2>1 DEF Init
<1>2. PICK s \in Signed :
        LET expire == IF s.endless THEN MaxDate(def.expire_format) ELSE s.expire
        IN  /\ Certifiable(def.issue_format, s.issue)
            /\ Certifiable(def.expire_format, expire)
            /\ cert = [issue |-> Encoded(def.issue_format, s.issue),
                       expire |-> Encoded(def.expire_format, expire), sn |-> NoComp]
  BY <1>1 DEF Init
<1> DEFINE expire == IF s.endless THEN MaxDate(def.expire_format) ELSE s.expire
<1>3. def.issue_format \in Formats /\ def.expire_format \in Formats
  BY DefsAssumption DEF Init
<1>4. s.issue \in Dates /\ expire \in Dates
  <2>1. MaxDate(def.expire_format) \in Dates
    BY <1>3 DEF MaxDate, Stamp, Dates, Formats
  <2> QED BY <2>1, SignedAssumption
<1> HIDE DEF expire
<1>5. /\ Certifiable(def.issue_format, s.issue) /\ Certifiable(def.expire_format, expire)
      /\ cert = [issue |-> Encoded(def.issue_format, s.issue),
                 expire |-> Encoded(def.expire_format, expire), sn |-> NoComp]
  BY <1>2 DEF expire
<1>6. start = cert /\ comp = NoComp
  BY <1>1 DEF Init
<1>7. IssueIn(start) = s.issue /\ ExpireIn(start) = expire
  BY <1>3, <1>4, <1>5, <1>6, CertifiedReadsBack DEF IssueIn, ExpireIn
<1>8. Began
  BY <1>4, <1>5, <1>6, <1>7 DEF Began
<1> QED BY <1>1, <1>6, <1>8 DEF SignedInv, ComesBack


\* A serial number is signed over the dates that are signed.
LEMMA SignedSerial ==
    ASSUME IInv, SignedInv, GenCertSn, ~OnDevice
    PROVE  SignedInv'
<1>1. /\ pc = "sign" /\ start' = cert' /\ UNCHANGED <<def, comp>> /\ pc' \in {"compress", "end"}
      /\ Began /\ start = cert /\ comp = NoComp /\ DOMAIN cert = {"issue", "expire", "sn"}
  BY DEF GenCertSn, SignedInv, IInv
<1>2. cert'.issue = cert.issue /\ cert'.expire = cert.expire
  BY <1>1 DEF GenCertSn
<1>3. IssueIn(start') = IssueIn(start) /\ ExpireIn(start') = ExpireIn(start)
      /\ IssueIn(start') = IssueIn(cert) /\ ExpireIn(start') = ExpireIn(cert)
  BY <1>1, <1>2 DEF IssueIn, ExpireIn
<1>4. Began'
  BY <1>1, <1>2, <1>3 DEF Began, IssueIn, ExpireIn
<1>5. pc' = "compress" => SerialMade'
  <2>1. SUFFICES ASSUME pc' = "compress" PROVE SerialMade'
    OBVIOUS
  <2> DEFINE issue == IssueIn(cert)
             years == CalcYears(issue, ExpireIn(cert))
             sn == SnOf(EncComp(VersionFor(issue, years), issue, years))
  <2>2. status' = "SUCCESS"
    BY <2>1 DEF GenCertSn
  <2>3. CASE ~def.hashed_sn
    <3>1. cert'.sn = StoredSn
      BY <1>1, <2>3 DEF GenCertSn
    <3> QED BY <1>1, <2>3, <3>1 DEF SerialMade
  <2>4. CASE def.hashed_sn
    <3>1. def.has_issue /\ def.has_expire /\ cert' = [cert EXCEPT !.sn = sn]
      BY <1>1, <2>2, <2>4 DEF GenCertSn
    <3>2. start'.sn = sn
      BY <1>1, <3>1
    <3>3. SerialMade' <=> LET i == IssueIn(start')
                              n == CalcYears(i, ExpireIn(start'))
                          IN  start'.sn = SnOf(EncComp(VersionFor(i, n), i, n))
      BY <1>1, <2>4, <3>1 DEF SerialMade, IssueIn, ExpireIn
    <3> QED BY <1>3, <3>2, <3>3
  <2> QED BY <2>3, <2>4
<1>6. ComesBack'
  BY <1>1 DEF ComesBack
<1> QED BY <1>1, <1>4, <1>5, <1>6 DEF SignedInv

\* What goes to the device encodes the signed dates.
LEMMA CompressesSigned ==
    ASSUME IInv, SignedInv, Compress, ~OnDevice
    PROVE  SignedInv'
<1>1. /\ pc = "compress" /\ UNCHANGED <<def, cert, start>> /\ pc' \in {"build", "end"}
      /\ Began /\ start = cert /\ comp = NoComp /\ SerialMade
  BY DEF Compress, SignedInv
<1>2. Began'
  BY <1>1 DEF Began, IssueIn, ExpireIn
<1>3. CASE pc' = "end"
  <2>1. status' # "SUCCESS"
    BY <1>1, <1>3 DEF Compress
  <2>2. comp' = comp
    BY <2>1 DEF Compress
  <2> QED BY <1>1, <1>2, <1>3, <2>2 DEF SignedInv, ComesBack
<1>4. CASE pc' = "build"
  <2>1. status' = "SUCCESS"
    BY <1>4 DEF Compress
  <2> DEFINE issue == IF def.has_issue THEN IssueIn(cert) ELSE DefaultIssue
             years == CompressedYears.years
             version == VersionFor(issue, years)
  <2>2. CompressedYears.status = "SUCCESS"
    BY <2>1 DEF Compress
  <2>3. EncodesComp(version, issue, years) /\ comp' = EncComp(version, issue, years)
    BY <2>1, <2>2 DEF Compress
  <2>4. Compressed'
    BY <1>1, <2>2, <2>3 DEF Compressed, CompressedYears, IssueIn, ExpireIn
  <2>5. SerialMade'
    BY <1>1 DEF SerialMade, IssueIn, ExpireIn
  <2> QED BY <1>1, <1>2, <1>4, <2>4, <2>5 DEF SignedInv, ComesBack
<1> QED BY <1>1, <1>3, <1>4

(* The heart of it: what is built of a compressed certificate that had room  *)
(* for the dates has the dates that were signed.                             *)
LEMMA DatesComeBack ==
    ASSUME def \in Defs, Began, start = cert, Compressed, Fits
    PROVE  /\ comp.version \in Versions
           /\ CompIssue(comp) = IssueIn(start)
           /\ def.has_expire => CompExpire(comp, def.expire_format) = ExpireIn(start)
           /\ def.has_expire /\ ~Endless =>
                 comp = LET n == CalcYears(IssueIn(start), ExpireIn(start))
                        IN  EncComp(VersionFor(IssueIn(start), n), IssueIn(start), n)
<1> DEFINE i == IssueIn(start)
           e == ExpireIn(start)
           n == CompressedYears.years
           v == VersionFor(i, n)
<1>1. /\ i \in Dates /\ e \in Dates /\ i \in Stamps /\ e \in Stamps
      /\ def.has_issue /\ i.min = 0 /\ i.sec = 0
  BY DatesAreStamps DEF Began, Fits
<1>2. ASSUME def.has_expire, e # MaxDate(def.expire_format)
      PROVE  SameButYear(i, e) /\ e.year - i.year \in 1..127
  BY <1>2 DEF Fits
<1>3. EncodesComp(v, i, n) /\ comp = EncComp(v, i, n)
  BY <1>1 DEF Compressed
<1>4. v \in {0, 1}
  BY DEF VersionFor
<1>5. n \in 0..127
  <2> HIDE DEF n, i
  <2> QED BY <1>3, <1>4 DEF EncodesComp
<1>6. CompYears(comp) = n /\ CompIssue(comp) = Stamp(i.year, i.mon, i.mday, i.hour, 0, 0)
  <2> HIDE DEF i, n
  <2>1. n \in Int
    BY <1>5
  <2> QED BY <1>1, <1>3, <2>1, DatesReadBack
<1>7. CompIssue(comp) = i
  <2>1. Stamp(i.year, i.mon, i.mday, i.hour, 0, 0) = i
    <3> HIDE DEF i
    <3> QED BY <1>1 DEF Stamp, Stamps
  <2> QED BY <1>6, <2>1
<1>8. ASSUME def.has_expire, e = MaxDate(def.expire_format) PROVE n = 0
  BY <1>8 DEF CompressedYears
<1>9. ASSUME def.has_expire, e # MaxDate(def.expire_format)
      PROVE  n = e.year - i.year /\ n \in 1..127 /\ SameButYear(i, e)
  <2>1. SameButYear(i, e) /\ e.year - i.year \in 1..127 /\ e.year - i.year < 128
    BY <1>2, <1>9
  <2> QED BY <1>1, <1>9, <2>1 DEF CompressedYears
<1>10. ASSUME def.has_expire PROVE CompExpire(comp, def.expire_format) = e
  <2>1. CASE e = MaxDate(def.expire_format)
    BY <1>6, <1>8, <1>10, <2>1 DEF CompExpire
  <2>2. CASE e # MaxDate(def.expire_format)
    <3>1. n = e.year - i.year /\ n \in 1..127 /\ SameButYear(i, e)
      BY <1>9, <1>10, <2>2
    <3> HIDE DEF i, e, n
    <3>2. CompExpire(comp, def.expire_format) = [i EXCEPT !.year = i.year + n]
      BY <1>6, <1>7, <3>1 DEF CompExpire
    <3>3. i.year + n = e.year
      BY <1>1, <3>1 DEF Stamps
    <3> QED BY <3>1, <3>2, <3>3 DEF SameButYear
  <2> QED BY <2>1, <2>2
<1>11. ASSUME def.has_expire, ~Endless
       PROVE  comp = EncComp(VersionFor(i, CalcYears(i, e)), i, CalcYears(i, e))
  <2>1. n = e.year - i.year /\ n \in 1..127
    BY <1>9, <1>11 DEF Endless
  <2> HIDE DEF i, e, n
  <2>2. CalcYears(i, e) = n
    BY <2>1 DEF CalcYears
  <2> QED BY <1>3, <2>2
<1>12. comp.version \in Versions
  <2>1. comp.version = v
    BY <1>3 DEF EncComp
  <2> QED BY <1>4, <2>1 DEF Versions
<1> QED BY <1>7, <1>10, <1>11, <1>12


\* What is built is what was signed.
LEMMA BuildsSigned ==
    ASSUME IInv, SignedInv, Build, ~OnDevice
    PROVE  SignedInv'
<1>1. /\ pc = "build" /\ UNCHANGED <<def, comp, start>> /\ pc' \in {"compress", "end"}
      /\ Began /\ start = cert /\ SerialMade /\ Compressed /\ def \in Defs
      /\ DOMAIN cert = {"issue", "expire", "sn"}
  BY DEF Build, SignedInv, IInv
<1>2. Began'
  BY <1>1 DEF Began, IssueIn, ExpireIn
<1>3. pc' = "end"
  <2>1. start # comp
    BY <1>1 DEF OnDevice, Compressed, EncComp
  <2> QED BY <1>1, <2>1 DEF Build
<1>4. ASSUME Fits, ~PosixEdge
      PROVE  /\ status' = "SUCCESS"
             /\ cert'.issue = start.issue /\ cert'.expire = start.expire
             /\ ~Endless \/ ~def.hashed_sn => cert'.sn = start.sn
  <2> DEFINE issue == CompIssue(comp)
             expire == CompExpire(comp, def.expire_format)
  <2>1. /\ comp.version \in Versions
        /\ issue = IssueIn(start)
        /\ def.has_expire => expire = ExpireIn(start)
        /\ def.has_expire /\ ~Endless =>
              comp = LET n == CalcYears(IssueIn(start), ExpireIn(start))
                     IN  EncComp(VersionFor(IssueIn(start), n), IssueIn(start), n)
    BY <1>1, <1>4, DatesComeBack
  <2>2. def.issue_format \in Formats /\ def.expire_format \in Formats
    BY <1>1, DefsAssumption
  <2>3. def.has_issue
    BY <1>4 DEF Fits
  <2>4. Encodes(def.issue_format, issue) /\ start.issue = Encoded(def.issue_format, issue)
    BY <1>1, <1>4, <2>1, <2>2, <2>3, CertifiedEncodes DEF Began, PosixEdge
  <2>5. def.has_expire => /\ Encodes(def.expire_format, expire)
                          /\ start.expire = Encoded(def.expire_format, expire)
    BY <1>1, <1>4, <2>1, <2>2, CertifiedEncodes DEF Began, PosixEdge
  <2> DEFINE issued == [cert EXCEPT !.issue = IF def.has_issue
                                              THEN Encoded(def.issue_format, issue) ELSE @]
  <2>6. /\ status' = "SUCCESS"
        /\ cert' = [issued EXCEPT
              !.expire = IF def.has_expire THEN Encoded(def.expire_format, expire) ELSE @,
              !.sn = IF def.hashed_sn THEN SnOf(comp) ELSE StoredSn]
    <3> HIDE DEF issue, expire
    <3> QED BY <2>1, <2>3, <2>4, <2>5 DEF Build, issue, expire
  <2> HIDE DEF issue, expire
  <2>7. /\ cert'.issue = start.issue /\ cert'.expire = start.expire
        /\ cert'.sn = IF def.hashed_sn THEN SnOf(comp) ELSE StoredSn
    BY <1>1, <2>3, <2>4, <2>5, <2>6
  <2>8. ASSUME ~Endless \/ ~def.hashed_sn PROVE cert'.sn = start.sn
    <3>1. CASE def.hashed_sn
      <4>1. def.has_expire /\ ~Endless
        BY <1>1, <2>8, <3>1 DEF SerialMade
      <4> QED BY <1>1, <2>1, <2>7, <3>1, <4>1 DEF SerialMade
    <3>2. CASE ~def.hashed_sn
      BY <1>1, <2>7, <3>2 DEF SerialMade
    <3> QED BY <3>1, <3>2
  <2> QED BY <2>6, <2>7, <2>8
<1>5. Fits' = Fits /\ PosixEdge' = PosixEdge /\ Endless' = Endless
  BY <1>1 DEF Fits, PosixEdge, Endless, IssueIn, ExpireIn
<1>6. ComesBack'
  BY <1>1, <1>4, <1>5 DEF ComesBack
<1> QED BY <1>1, <1>2, <1>3, <1>6 DEF SignedInv

\* Every step keeps the invariant of a certificate that was signed.
LEMMA KeepsSigned == ASSUME IInv, SignedInv, [Next]_vars PROVE SignedInv'
<1> SUFFICES ASSUME ~OnDevice' PROVE SignedInv'
  BY DEF SignedInv
<1>1. CASE GenCertSn
  <2>1. ~OnDevice
    BY <1>1 DEF GenCertSn, IInv, OnDevice
  <2> QED BY <1>1, <2>1, SignedSerial
<1>2. CASE Compress
  BY <1>2, CompressesSigned DEF Compress, OnDevice
<1>3. CASE Build
  BY <1>3, BuildsSigned DEF Build, OnDevice
<1>4. CASE UNCHANGED vars
  <2>1. UNCHANGED <<def, cert, comp, start, pc, status>>
    BY <1>4 DEF vars
  <2>2. ~OnDevice /\ (Began => Began') /\ (SerialMade => SerialMade') /\ (Compressed => Compressed')
    BY <2>1 DEF OnDevice, Began, SerialMade, Compressed, CompressedYears, IssueIn, ExpireIn
  <2>3. ComesBack => ComesBack'
    BY <2>1 DEF ComesBack, OnDevice, Fits, PosixEdge, Endless, IssueIn, ExpireIn
  <2> QED BY <2>1, <2>2, <2>3 DEF SignedInv
<1> QED BY <1>1, <1>2, <1>3, <1>4 DEF Next

(* For every set of definitions in use, every date and every compressed      *)
(* certificate: a certificate that was signed and cut down, and whose dates  *)
(* fit, is built again with the bytes it had, but for the two kinds of dates *)
(* that ComesBack names.                                                     *)
THEOREM ComesBackAlways == Spec => []ComesBack
<1>1. IInv /\ SignedInv => ComesBack
  BY DEF SignedInv, ComesBack
<1>2. Init => IInv /\ SignedInv
  BY Starts, StartsSigned
<1>3. IInv /\ SignedInv /\ [Next]_vars => IInv' /\ SignedInv'
  BY Keeps, KeepsSigned
<1> QED BY <1>1, <1>2, <1>3, PTL DEF Spec
=============================================================================
