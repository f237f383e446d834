------------------------------ MODULE CertDates ------------------------------
(***************************************************************************)
(* What a compressed certificate keeps of an X.509 certificate             *)
(* (lib/atcacert/atcacert_def.c, atcacert_date.c).  The device stores the   *)
(* issue date to the hour and a number of years; the host cuts a signed    *)
(* certificate down to that (Compress) and later builds it again from its  *)
(* template (Build).  The signature only fits if every byte comes back:    *)
(* the dates in the format of the definition, and the serial number, when  *)
(* it is generated from a hash over the compressed dates (GenCertSn).      *)
(*                                                                         *)
(* A POSIX time is kept as days and seconds of the day.  Bit fields that   *)
(* straddle bytes are the numbers they hold; a digest is its input.  The   *)
(* signature, key, signer id and template id are copied and left out.      *)
(***************************************************************************)
EXTENDS Integers

CONSTANTS Defs,   \* the certificate definitions in use
          Signed, \* the dates a certifier puts into certificates
          Stored  \* compressed certificates found on devices

Formats == {"iso", "utc", "posix", "gen"}
Versions == 0..2 \* FORMAT_VERSION_0 to FORMAT_VERSION_2

ASSUME DefsAssumption ==
    \A d \in Defs : d.issue_format \in Formats /\ d.expire_format \in Formats
                    /\ d.expire_years \in 0..255
                    /\ {d.has_issue, d.has_expire, d.hashed_sn, d.diff_ok} \subseteq BOOLEAN

\* The bit fields; the version is 4 bits of byte 70.
CompCerts == [version : 0..15, year : 0..31, year_ms : 0..3, mon : 0..15, mday : 0..31,
              hour : 0..31, expire : 0..31, expire_ms : 0..3]
ASSUME StoredAssumption == Stored \subseteq CompCerts

\* What the host's struct tm holds
Dates == [year : 0..9999, mon : 0..11, mday : 1..31, hour : 0..23, min : 0..59, sec : 0..59]
ASSUME SignedAssumption == Signed \subseteq [issue : Dates, expire : Dates, endless : BOOLEAN]

VARIABLES def,    \* the definition, and is_diff_expire_years_ok
          cert,   \* the dates, as formatted in the certificate, and its serial number
          comp,   \* the compressed certificate on the device
          start,  \* history: what it began with
          pc,     \* the next call
          status

vars == <<def, cert, comp, start, pc, status>>

Stamp(year, mon, mday, hour, min, sec) ==
    [year |-> year, mon |-> mon, mday |-> mday, hour |-> hour, min |-> min, sec |-> sec]

-----------------------------------------------------------------------------
(* atcacert_date.c *)

IsLeap(y) == y % 400 = 0 \/ (y % 4 = 0 /\ y % 100 # 0)
MonthDays(y, mon) ==
    <<31, IF IsLeap(y) THEN 29 ELSE 28, 31, 30, 31, 30, 31, 31, 30, 31, 30, 31>>[mon + 1]
YearStart[y \in 1970..2107] ==
    IF y = 1970 THEN 0 ELSE YearStart[y - 1] + (IF IsLeap(y - 1) THEN 366 ELSE 365)
MonthStart(y, mon) ==
    LET before[k \in 0..12] == IF k = 0 THEN 0 ELSE before[k - 1] + MonthDays(y, k - 1)
    IN  before[mon]
Day(t) == YearStart[t.year] + MonthStart(t.year, t.mon) + t.mday - 1
SecondOfDay(t) == t.hour * 3600 + t.min * 60 + t.sec
PosixEnd == [days |-> 49710, secs |-> 23295] \* UINT32_MAX

MaxDate(format) ==
    CASE format = "utc"   -> Stamp(2049, 11, 31, 23, 59, 59)
      [] format = "posix" -> Stamp(2106, 1, 7, 6, 28, 15)
      [] OTHER            -> Stamp(9999, 11, 31, 23, 59, 59)

\* Day 0 wraps below the start of 1970, which no later date survives.
DayIsValid(t) == t.mday \in 1..MonthDays(t.year, t.mon) - 1
PosixTime(t) == [days |-> Day(t), secs |-> SecondOfDay(t)]
InPosix(t) ==
    /\ t.year \in 1970..2106 /\ t.mon \in 0..11 /\ DayIsValid(t)
    /\ LET p == PosixTime(t)
       IN  p.days < PosixEnd.days \/ (p.days = PosixEnd.days /\ p.secs < PosixEnd.secs)

InText(t) == t.mon \in 0..11 /\ t.mday \in 1..31
Years(format) == IF format = "utc" THEN 1950..2049 ELSE 0..9999

Encodes(format, t) ==
    /\ t.hour \in 0..23 /\ t.min \in 0..59
    /\ IF format = "posix" THEN InPosix(t) ELSE InText(t) /\ t.year \in Years(format)
Encoded(format, t) ==
    CASE format = "posix" -> PosixTime(t)
      [] format = "utc"   -> [t EXCEPT !.year = @ % 100]
      [] OTHER            -> t

GmTime(p) ==
    LET y == CHOOSE k \in 1970..2106 : p.days \in YearStart[k]..YearStart[k + 1] - 1
        d == p.days - YearStart[y]
        m == CHOOSE k \in 0..11 : d \in MonthStart(y, k)..MonthStart(y, k + 1) - 1
    IN  Stamp(y, m, d - MonthStart(y, m) + 1, p.secs \div 3600, (p.secs \div 60) % 60, p.secs % 60)
Century(yy) == yy + IF yy < 50 THEN 2000 ELSE 1900
Decoded(format, f) ==
    CASE format = "posix" -> GmTime(f)
      [] format = "utc"   -> [f EXCEPT !.year = Century(@)]
      [] OTHER            -> f

\* atcacert_date_enc_compcert_ext; minutes and seconds are dropped
EncodesComp(version, issue, years) ==
    /\ issue.year \in IF version = 0 THEN 2000..2031 ELSE 2000..2127
    /\ years \in IF version = 0 THEN 0..31 ELSE 0..127
    /\ InText(issue) /\ issue.hour \in 0..23
EncComp(version, issue, years) ==
    [version |-> version,
     year |-> (issue.year - 2000) % 32, year_ms |-> ((issue.year - 2000) \div 32) % 4,
     mon |-> issue.mon + 1, mday |-> issue.mday, hour |-> issue.hour,
     expire |-> years % 32, expire_ms |-> (years \div 32) % 4]

\* atcacert_date_dec_compcert_ext
ExtendedInLatest(c) == c.version = 2
Extended(c) == c.version \in {1, 2}
CompYears(c) == c.expire + IF Extended(c) THEN 32 * c.expire_ms ELSE 0
CompIssue(c) ==
    Stamp(2000 + c.year + (IF Extended(c) THEN 32 * c.year_ms ELSE 0),
          (c.mon + 15) % 16, c.mday, c.hour, 0, 0)
CompExpire(c, format) ==
    IF CompYears(c) = 0 THEN MaxDate(format)
    ELSE LET t == CompIssue(c) IN [t EXCEPT !.year = @ + CompYears(c)]

-----------------------------------------------------------------------------
(* atcacert_def.c *)

\* FORMAT_VERSION_2 is for signatures longer than P256's
VersionForIssue(issue, years) == IF issue.year > 2031 THEN 1 ELSE 0
VersionFor(issue, years) == IF issue.year > 2031 \/ years > 31 THEN 1 ELSE 0

\* The digest's input: the fourth byte is only in it for extended dates.
SnOf(c) == IF c.version = 0 THEN [c EXCEPT !.year_ms = 0, !.expire_ms = 0]
           ELSE [c EXCEPT !.version = 1]

NoComp == [version |-> "none"]
StoredSn == [version |-> "stored"]
IssueIn(c) == Decoded(def.issue_format, c.issue)
ExpireIn(c) == Decoded(def.expire_format, c.expire)
DefaultIssue == Stamp(2000, 0, 1, 0, 0, 0) \* of atcacert_get_comp_cert

\* atcacert_calc_expire_years, when it does not refuse
CalcYears(issue, expire) ==
    LET n == expire.year - issue.year IN IF n \in 0..127 THEN n ELSE 0

(* atcacert_gen_cert_sn, before the certificate is signed *)
GenCertSn ==
    /\ pc = "sign"
    /\ IF ~def.hashed_sn
       THEN cert' = [cert EXCEPT !.sn = StoredSn] /\ status' = "SUCCESS"
       ELSE LET issue == IssueIn(cert)
                expire == ExpireIn(cert)
                years == CalcYears(issue, expire)
                version == VersionFor(issue, years)
            IN  CASE ~def.has_issue \/ ~def.has_expire ->
                        status' = "ELEM_MISSING" /\ UNCHANGED cert
                  [] def.has_issue /\ def.has_expire
                     /\ (issue.year > expire.year \/ ~EncodesComp(version, issue, years)) ->
                        status' = "INVALID_DATE" /\ UNCHANGED cert
                  [] OTHER ->
                        /\ cert' = [cert EXCEPT !.sn = SnOf(EncComp(version, issue, years))]
                        /\ status' = "SUCCESS"
    /\ start' = cert'
    /\ pc' = IF status' = "SUCCESS" THEN "compress" ELSE "end"
    /\ UNCHANGED <<def, comp>>

SameButYear(a, b) == [a EXCEPT !.year = b.year] = b

(* The years atcacert_get_comp_cert_ext settles for, or why it gives up *)
CompressedYears ==
    LET issue == IssueIn(cert)
        expire == ExpireIn(cert)
        years == expire.year - issue.year
        differs(n) == n # def.expire_years /\ ~def.diff_ok
    IN  CASE ~def.has_expire -> [status |-> "SUCCESS", years |-> def.expire_years]
          [] def.has_expire /\ expire = MaxDate(def.expire_format) ->
                [status |-> IF differs(0) THEN "WRONG_CERT_DEF" ELSE "SUCCESS", years |-> 0]
          [] def.has_expire /\ expire # MaxDate(def.expire_format)
             /\ def.has_issue /\ SameButYear(issue, expire) /\ years < 128 ->
                [status |-> IF years < 0 THEN "BAD_CERT"
                            ELSE IF differs(years) THEN "WRONG_CERT_DEF" ELSE "SUCCESS",
                 years |-> years]
          [] OTHER -> [status |-> "SUCCESS", years |-> def.expire_years]

(* atcacert_get_comp_cert and atcacert_get_comp_cert_ext *)
Compress ==
    /\ pc = "compress"
    /\ LET issue == IF def.has_issue THEN IssueIn(cert) ELSE DefaultIssue
           settled == CompressedYears
           version == VersionFor(issue, settled.years)
       IN  IF settled.status # "SUCCESS"
           THEN status' = settled.status /\ UNCHANGED comp
           ELSE IF ~EncodesComp(version, issue, settled.years)
           THEN status' = "INVALID_DATE" /\ UNCHANGED comp
           ELSE status' = "SUCCESS" /\ comp' = EncComp(version, issue, settled.years)
    /\ pc' = IF status' = "SUCCESS" /\ start = cert THEN "build" ELSE "end"
    /\ UNCHANGED <<def, cert, start>>

(* atcacert_set_comp_cert and atcacert_cert_build_finish: a date without a *)
(* place in the definition stays as the template has it.                   *)
Build ==
    /\ pc = "build"
    /\ LET issue == CompIssue(comp)
           expire == CompExpire(comp, def.expire_format)
           issued == [cert EXCEPT !.issue = IF def.has_issue THEN Encoded(def.issue_format, issue)
                                            ELSE @]
       IN  IF comp.version \notin Versions
           THEN status' = "DECODING_ERROR" /\ UNCHANGED cert
           ELSE IF def.has_issue /\ ~Encodes(def.issue_format, issue)
           THEN status' = "INVALID_DATE" /\ UNCHANGED cert
           ELSE IF def.has_expire /\ ~Encodes(def.expire_format, expire)
           THEN status' = "INVALID_DATE" /\ cert' = issued
           ELSE /\ status' = "SUCCESS"
                /\ cert' = [issued EXCEPT
                      !.expire = IF def.has_expire THEN Encoded(def.expire_format, expire) ELSE @,
                      !.sn = IF def.hashed_sn THEN SnOf(comp) ELSE StoredSn]
    /\ pc' = IF status' = "SUCCESS" /\ start = comp THEN "compress" ELSE "end"
    /\ UNCHANGED <<def, comp, start>>

\* What the certifier can write into a field; it knows its calendar.
Certifiable(format, t) ==
    /\ t.year \in IF format = "posix" THEN 1970..2106 ELSE Years(format)
    /\ t.mday \in 1..MonthDays(t.year, t.mon)
    /\ format = "posix" /\ t.year = 2106 => t = MaxDate("posix")

Init ==
    /\ def \in Defs /\ status = "SUCCESS"
    /\ \/ /\ \E s \in Signed :
                LET expire == IF s.endless THEN MaxDate(def.expire_format) ELSE s.expire
                IN  /\ Certifiable(def.issue_format, s.issue)
                    /\ Certifiable(def.expire_format, expire)
                    /\ cert = [issue |-> Encoded(def.issue_format, s.issue),
                               expire |-> Encoded(def.expire_format, expire), sn |-> NoComp]
          /\ comp = NoComp /\ start = cert /\ pc = "sign"
       \/ /\ comp \in Stored /\ start = comp /\ pc = "build"
          /\ cert = [issue |-> "template", expire |-> "template", sn |-> NoComp]

Next == GenCertSn \/ Compress \/ Build
Spec == Init /\ [][Next]_vars

-----------------------------------------------------------------------------
OnDevice == "version" \in DOMAIN start

(* What a compressed certificate has room for: hours, and whole years from *)
(* the issue date, or no end.                                              *)
Fits ==
    LET issue == IssueIn(start)
        expire == ExpireIn(start)
    IN  /\ def.has_issue
        /\ issue.min = 0 /\ issue.sec = 0
        /\ def.has_expire => \/ expire = MaxDate(def.expire_format)
                             \/ SameButYear(issue, expire) /\ expire.year - issue.year \in 1..127
Endless == def.has_expire /\ ExpireIn(start) = MaxDate(def.expire_format)

(* Dates that atcacert_date_enc_posix refuses: the last day of a month and  *)
(* the last second of the format (atcacert_posix_day_is_valid and           *)
(* atcacert_posix_time_inc compare with <).                                 *)
LastOfPosix(format, t) ==
    format = "posix" /\ (t = MaxDate("posix") \/ t.mday = MonthDays(t.year, t.mon))
PosixEdge == \/ def.has_issue /\ LastOfPosix(def.issue_format, IssueIn(start))
             \/ def.has_expire /\ LastOfPosix(def.expire_format, ExpireIn(start))

(* A certificate that was compressed is built again as it was signed, if its *)
(* dates fit into a compressed certificate: both dates, and the generated    *)
(* serial number.  Two kinds do not, and are named: POSIX dates at an edge,  *)
(* and the serial number of an endless certificate, which is generated with  *)
(* the years up to the maximum date and rebuilt with none.                   *)
ComesBack ==
    (~OnDevice /\ pc = "end" /\ comp # NoComp /\ Fits /\ ~PosixEdge) =>
        /\ status = "SUCCESS"
        /\ cert.issue = start.issue /\ cert.expire = start.expire
        /\ ~Endless \/ ~def.hashed_sn => cert.sn = start.sn

(* The other way round: a certificate built of a device's compressed       *)
(* certificate, in whichever version, can be compressed, and what the host   *)
(* then holds is what the device had.                                        *)
ReadsBack ==
    (OnDevice /\ pc = "end" /\ cert.sn # NoComp /\ def.has_issue /\ def.has_expire /\ def.diff_ok) =>
        /\ status = "SUCCESS"
        /\ CompIssue(comp) = CompIssue(start) /\ CompYears(comp) = CompYears(start)

(* SNSRC_PUB_KEY_HASH, SNSRC_DEVICE_SN_HASH (atcacert_def.h:89): "Cert serial *)
(* number is the SHA256(Subject public key + Encoded dates)", the dates that  *)
(* the compressed certificate encodes.                                        *)
SerialComesBack ==
    (~OnDevice /\ pc = "end" /\ comp # NoComp /\ Fits /\ status = "SUCCESS") => cert.sn = start.sn
=============================================================================
