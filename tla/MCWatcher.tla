----------------------------- MODULE MCWatcher -----------------------------
\* Watcher with one paper and one live position; the watchers are
\* interchangeable.
EXTENDS Watcher, TLC

Symmetry == Permutations(Watchers)
=============================================================================
