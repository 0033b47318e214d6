---------------------------- MODULE MCHostRelay -----------------------------
EXTENDS HostRelay, TLC

Interchangeable == Permutations(Jobs) \union Permutations(Messages)

\* Bound of the run with a job: behaviours go on while at most three statuses
\* have been queued for its sender.
ShortOutbox == Len(outbox) <= 3
=============================================================================
