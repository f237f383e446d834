----------------------------- MODULE MCCertDates -----------------------------
(* Dates around what the formats treat specially: leap days, the last days  *)
(* of a month, the two-digit year's turn, the 5 bits of a year and their    *)
(* extension, the end of each format.                                       *)
EXTENDS CertDates

Edges == {Stamp(2024, 0, 30, 10, 0, 0), Stamp(2024, 0, 31, 10, 0, 0), Stamp(2024, 1, 28, 23, 0, 0),
           Stamp(2024, 1, 29, 0, 0, 0), Stamp(2031, 11, 15, 12, 0, 0), Stamp(2032, 5, 1, 1, 0, 0),
           Stamp(1999, 11, 30, 5, 0, 0), Stamp(2000, 0, 1, 0, 0, 0), Stamp(2049, 6, 4, 7, 0, 0),
           Stamp(2024, 3, 2, 9, 30, 0), Stamp(2095, 7, 8, 4, 0, 0), Stamp(2127, 9, 9, 9, 0, 0)}
Terms == {-1, 0, 1, 4, 25, 31, 32, 127, 128}
MCSigned ==
    {[issue |-> t, expire |-> [t EXCEPT !.year = @ + n], endless |-> FALSE] : t \in Edges, n \in Terms}
    \cup {[issue |-> t, expire |-> [t EXCEPT !.year = @ + 2, !.mon = 4], endless |-> e] :
              t \in Edges, e \in BOOLEAN}

MCStored ==
    [version : 0..3, year : {0, 31}, year_ms : {0, 2}, mon : {0, 2, 12}, mday : {0, 28, 29, 31},
     hour : {0, 24}, expire : {0, 5}, expire_ms : {0, 1}]

MCDefs ==
    [issue_format : {"utc", "posix", "gen"}, expire_format : Formats, expire_years : {0, 32},
     has_issue : BOOLEAN, has_expire : BOOLEAN, hashed_sn : BOOLEAN, diff_ok : {TRUE}]
    \cup [issue_format : {"gen"}, expire_format : {"gen"}, expire_years : {0, 25},
          has_issue : {TRUE}, has_expire : {TRUE}, hashed_sn : BOOLEAN, diff_ok : {FALSE}]
=============================================================================
