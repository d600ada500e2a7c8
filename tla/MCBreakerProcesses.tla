------------------------- MODULE MCBreakerProcesses -------------------------
(* Instances of BreakerProcesses for TLC: how tools are keyed.             *)
EXTENDS BreakerProcesses

CONSTANTS t1, t2   \* tools

\* Every tool has two keys: the name and the signature that compiled manifests
\* carry as tool_id.
Names == {t1, t2}
Signatures == {<<t1, "signature">>, <<t2, "signature">>}
AllKeys == Names \cup Signatures

ByName == [t \in Names |-> t]
BySignature == [t \in Names |-> <<t, "signature">>]
=============================================================================
