-------------------------- MODULE MCAdministration --------------------------
EXTENDS Administration, TLC

CONSTANTS site, a, b, read

Rule(v) == [attr |-> [k \in {site} |-> {v}], rule |-> "ALL"]

MCRules == {Rule(a), Rule(b)}
=============================================================================
