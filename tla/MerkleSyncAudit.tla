--------------------------- MODULE MerkleSyncAudit ---------------------------
(***************************************************************************)
(* What the comments of internal/core/sync say of a synchronisation        *)
(* session, checked against MerkleSync: a history variable remembers what  *)
(* both sides had stored when the session began.                           *)
(***************************************************************************)
EXTENDS MCMerkleSync

VARIABLE theirs  \* the HLCs the peer of every caller had when its session began

AInit == Init /\ theirs = [c \in Caller |-> {}]

ANext ==
  /\ Next
  /\ theirs' = [c \in Caller |->
       IF sess[c].pc = "idle" /\ sess'[c].pc = "listed"
         THEN Hlcs(store[sess'[c].peer])
         ELSE theirs[c]]

ASpec == AInit /\ [][ANext]_<<vars, theirs>>

\* A session that completed through equal roots: the initiator has what the
\* peer had when it began ("matching hashes mean the entire subtree is in
\* sync", timebucket.go).
MatchingRootsInSync ==
  \A c \in Caller :
    sess[c].pc = "done" /\ RootsMatch(sess[c].local, sess[c].remoteRoot)
      => theirs[c] \subseteq Hlcs(store[Home[c]])
=============================================================================
