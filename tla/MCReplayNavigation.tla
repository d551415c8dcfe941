------------------------- MODULE MCReplayNavigation -------------------------
(* ReplayNavigation for TLC: snapshots with rows on one side, on none and   *)
(* on both.                                                                 *)
EXTENDS ReplayNavigation

MCContents ==
    {<<{Outgoing}, {}, {Incoming, Outgoing}>>}

MCContentsOfTwo == {<<{Incoming}, {Outgoing}>>}
=============================================================================
