--------------------------- MODULE MCProvisioning ---------------------------
(* The command sequences that the scripts and the guides prescribe. *)
EXTENDS Provisioning

\* main and provision_trustcustom_device of secure_cert_mfg.py
TrustCustom == <<"init", "print-chip-info", "generate-keys", "generate-csr",
                 "provide-cert-def 0", "program-dev-cert",
                 "provide-cert-def 1", "program-signer-cert">>

\* "Correct Workflow (NEW)" of DIAGNOSIS_AND_FIX.md, as it stands
Documented == <<"init", "is-config-locked", "write-config", "lock-config", "generate-keys",
                "lock-data", "generate-csr", "program-dev-cert", "program-signer-cert">>

\* The same with the key read back and the definitions that it leaves out
BlankChip == <<"init", "is-config-locked", "write-config", "lock-config",
               "generate-keys", "generate-pubkey", "lock-data", "generate-csr",
               "provide-cert-def 0", "program-dev-cert",
               "provide-cert-def 1", "program-signer-cert">>

\* The script over a chip that comes configured; the guide over a blank one
MCPlans == {[commands |-> TrustCustom, delivered |-> TRUE, losable |-> FALSE],
            [commands |-> BlankChip, delivered |-> FALSE, losable |-> TRUE]}
MCDocumented == {[commands |-> Documented, delivered |-> FALSE, losable |-> FALSE]}

\* The theorems' assumptions about the order of the commands hold of both.
ASSUME PlansAreOrdered ==
    \A p \in MCPlans :
        /\ DefinedFirst(p.commands) /\ RequestedFirst(p.commands) /\ KeyedFirst(p.commands)
        /\ \A k \in Kinds : \E i \in 1..Len(p.commands) : p.commands[i] = Program[k]
        /\ IF p.delivered THEN ~Follows("write-config", p.commands, Len(p.commands) + 1)
           ELSE WrittenFirst(p.commands)

LossyLine == {"cert", "config"}
=============================================================================
