----------------------- MODULE MCIntegrationCapability -----------------------
EXTENDS IntegrationCapability, TLC

\* Logins are only compared with one another; one main is pinned, one is not.
Interchangeable == Permutations(Logins)
=============================================================================
