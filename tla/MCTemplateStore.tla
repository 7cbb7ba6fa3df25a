--------------------------- MODULE MCTemplateStore ---------------------------
EXTENDS TemplateStore, TLC

\* Requests, codes, names and contents are interchangeable.
StoreSymmetry ==
    Permutations(Requests) \cup Permutations(Codes) \cup Permutations(Names)
        \cup Permutations(Contents)
=============================================================================
