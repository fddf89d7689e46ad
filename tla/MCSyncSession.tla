--------------------------- MODULE MCSyncSession ----------------------------
(***************************************************************************)
(* Instances of SyncSession for TLC.  The tables say how the users' edits  *)
(* look to the code: by default all files have one size and every edit its *)
(* own checksum and its own time stamp, the hardest case for the merge.    *)
(***************************************************************************)
EXTENDS SyncSessionInvariants, SyncSessionRefinement

OnePath  == {1}
TwoPaths == {1, 2}

\* All versions have the same size.
EqualSizes == [v \in Version |-> 1]

\* Every second version is longer.
MixedSizes == [v \in Version |-> 1 + (v % 2)]

\* Every content has its own checksum.
DistinctCrcs == [x \in Content |-> x + 1]

\* Every edit has its own time stamp.
DistinctStamps == [v \in Version |-> v]

\* All edits fall into one two-second step of the DOS clock.
EqualStamps == [v \in Version |-> 1]

=============================================================================
