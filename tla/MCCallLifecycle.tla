--------------------------- MODULE MCCallLifecycle ---------------------------
EXTENDS CallLifecycle, TLC

Symmetry == Permutations(Requests)

\* The constraint of CallRetries.cfg: one call is the client's own, every other
\* one a retry.  Two calls of the client's own share nothing the run asks about.
Original(r) == db.row[r].status # Absent /\ db.row[r].parent = NoRequest
OneOriginal ==
  \A r, p \in Requests : Original(r) /\ Original(p) => r = p
=============================================================================
