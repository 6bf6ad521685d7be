------------------------- MODULE MCDirectPublishing -------------------------
(***************************************************************************)
(* Two articles, one of a source that is not polled; a feed file and a     *)
(* channel.                                                                *)
(***************************************************************************)
EXTENDS DirectPublishing, TLC

CONSTANTS a1, a2, a0, s1, s2, pwa, eitaa

OnePolled == (a1 :> s1) @@ (a2 :> s2)

OneItem == <<a0>>

FileFirst == <<pwa, eitaa>>

(***************************************************************************)
(* The first article has an update time, which may be yet to come; items   *)
(* that are polled have lost it.                                           *)
(***************************************************************************)
OneUpdate == (a1 :> {<<1, 2>>}) @@ (a2 :> {<<1, 0>>})

=============================================================================
