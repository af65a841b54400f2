---------------------------- MODULE MCMembership ----------------------------
\* The order of the addresses, for the run of Membership.
EXTENDS Membership, SequencesExt

ByNumber == [S \in SUBSET Servers |-> SetToSortSeq(S, <)]
=============================================================================
