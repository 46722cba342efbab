-------------------------- MODULE MCSettingsStore --------------------------
\* SettingsStore for TLC: two profiles, two keys, an account that moves between devices.
EXTENDS SettingsStore, TLC
Symmetry == Permutations(Browsers) \cup Permutations(Keys) \cup Permutations(Udids) \cup Permutations(Requests)
=============================================================================
