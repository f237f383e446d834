------------------------------ MODULE MCPkcs11 ------------------------------
(* TLC instances of Pkcs11: two threads of one process and one of another,  *)
(* which share the AES engine, and the two threads alone, which log in.     *)
EXTENDS Pkcs11

CONSTANTS t1, t2, u1, p, q
MCThreads == {t1, t2, u1}
MCPair == {t1, t2}
MCProcesses == {p, q}
MCOne == {p}
MCProcessOf == [t \in MCThreads |-> IF t = u1 THEN q ELSE p]
MCPairOf == [t \in MCPair |-> p]
MCAesOps == [t \in MCThreads |->
    {"open", "close", "encrypt_init", "encrypt", "sign"} \cup 
        IF t = u1 THEN {"update", "sign_init", "verify", "create"} ELSE {}]
MCLoginOps == [t \in MCPair |->
    {"open", "close", "login", "logout", "digest_init", "digest", "sign_init", "sign", "verify",
     "create"}]
=============================================================================
