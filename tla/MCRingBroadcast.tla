-------------------------- MODULE MCRingBroadcast --------------------------
(* Instance of RingBroadcast for TLC.                                       *)
EXTENDS RingBroadcast

\* The first board broadcasts from a handler, while the second one sends
\* messages or copies enough to fill a queue of one in front of the
\* acknowledgement.  The third board only passes on what the two send.
OneAndTwo == <<1, 2, 0>>
HandlerAndApp == <<{Sib}, {App}, {}>>

\* Bound: a board tries again, or a board goes on to its second message.
OnceMore ==
  (\A b \in Board : msg[b] <= 1) \/ (\A b \in Board : try[b] <= 1)
=============================================================================
