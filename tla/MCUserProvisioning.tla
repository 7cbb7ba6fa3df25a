------------------------- MODULE MCUserProvisioning -------------------------
EXTENDS UserProvisioning, TLC

\* Requests, mappings and entries are interchangeable.
ProvisioningSymmetry ==
    Permutations(Requests) \cup Permutations(Apis) \cup Permutations(Entries)
=============================================================================
