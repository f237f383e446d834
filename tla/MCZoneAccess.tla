---------------------------- MODULE MCZoneAccess ----------------------------
(* TLC instances of ZoneAccess: ranges whose ends are around the words and  *)
(* blocks of each zone, and the calls with a fixed range, twice in a row.   *)
EXTENDS ZoneAccess

T(d, z, s) == [dev |-> d, zone |-> z, slot |-> s]
MCTargets == {T("ecc608", Config, 0), T("ecc608", Data, 3), T("ecc608", Data, 9), T("ecc608", Data, 8),
              T("ecc608", Otp, 0), T("ecc204", Config, 0), T("ecc204", Data, 1), T("ecc204", Data, 3)}
MCConfigOnly == {T("ecc204", Config, 0)}

Call(op, a, l) == [NoCall EXCEPT !.op = op, !.at = a, !.length = l]
Ends(t) ==
    CASE t.dev = "ecc204" /\ t.zone = Config -> {0, 3, 16, 17, 32, 64}
      [] SizeOf(t) = 128 -> {0, 16, 33, 64, 84, 88, 128}
      [] SizeOf(t) = 36 -> {0, 1, 4, 31, 32, 33, 35, 36, 40}
      [] SizeOf(t) = 72 -> {0, 4, 31, 32, 63, 65, 68, 72}
      [] SizeOf(t) = 416 -> {0, 5, 32, 388, 416}
      [] SizeOf(t) = 320 -> {0, 7, 32, 64, 300, 320}
      [] OTHER -> {0, 4, 31, 32, 64, 65}
Ranges(op, t) ==
    {Call(op, e[1], e[2] - e[1]) : e \in {f \in (Ends(t) \X Ends(t)) : f[1] < f[2]}}
\* A CA2 write begins with a block, or with a slot of the configuration.
Begins(t) == IF t.dev = "ecc608" THEN 1 ELSE IF t.zone = Data THEN Block ELSE 16
Aligned(t) == {c \in Ranges("write", t) : c.at % Begins(t) = 0}
MCCallsOn(t) ==
    Ranges("read", t) \cup Aligned(t)
        \cup (IF t.zone = Config
              THEN {Call("compare", 0, 0), [Call("config", 0, 0) EXCEPT !.extra = <<TRUE, FALSE>>],
                    Call("config", 0, 0)}
              ELSE {})
        \cup (IF t.slot = 9 THEN {Call("read_pubkey", 0, 0), Call("write_pubkey", 0, 0)} ELSE {})
        \cup (IF t.zone = Config /\ t.dev = "ecc204" THEN {Call("lock", 0, 0)} ELSE {})
=============================================================================
