--------------------------- MODULE MCPacketFiling ---------------------------
EXTENDS PacketFiling, TLC

CONSTANTS j1, j2

MCJobs == {j1, j2}
Symmetry == Permutations(MCJobs)
\* Two buckets; the name rule links only the job sent, and an entry with no link is Archive's.
MCStatuses == {"undecided", "sent"}
=============================================================================
