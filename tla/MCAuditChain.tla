---- MODULE MCAuditChain ----
EXTENDS AuditChain, TLC

\* Processes and pseudonyms are interchangeable.
Interchangeable == Permutations(Processes) \cup Permutations(Pseudonyms)

====
