--------------------------- MODULE MCSealedAccess ---------------------------
(* TLC instances of SealedAccess: calls with the right key and a wrong one,  *)
(* with good and bad signatures, by users that share the chip.              *)
EXTENDS SealedAccess

CONSTANTS a, b, k, t

Call(op, slot, data, key, keyId, sig) ==
    [op |-> op, slot |-> slot, data |-> data, key |-> key, keyId |-> keyId, sig |-> sig]
MCCalls ==
    {Call("write", t, a, key, k, a) : key \in Data}
        \cup {Call("priv", k, b, a, k, a), Call("plain", t, b, a, k, a), Call("ecdh", t, b, a, k, a),
              Call("read", t, a, a, k, a), Call("read", t, a, a, t, a)}
        \cup {Call("sign", t, d, a, k, a) : d \in Data}
        \cup {Call("verify", t, a, a, k, s) : s \in Data}
        \cup {Call("verify_mac", t, a, key, k, a) : key \in Data}
        \cup {Call(op, t, b, a, k, a) : op \in {"verify_mac", "secureboot"}}
        \cup {Call("secureboot", t, a, key, k, a) : key \in Data}
=============================================================================
