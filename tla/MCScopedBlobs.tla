---------------------------- MODULE MCScopedBlobs ----------------------------
(* ScopedBlobs for TLC: two publishing devices, two readers, two purposes. *)
EXTENDS ScopedBlobs

CONSTANTS d1, d2, friend, fleet, avatar, status

MCDevice == {d1, d2}
MCReader == {friend, fleet}
MCPurpose == {avatar, status}

\* Purposes are alike, and so are readers: the first publish may as well be an
\* avatar for the friend.
MCFirst == versions # <<>> => versions[1] = avatar /\ friend \in grants[1]
=============================================================================
