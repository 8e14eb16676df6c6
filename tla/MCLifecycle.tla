---------------------------- MODULE MCLifecycle ----------------------------
(***************************************************************************)
(* Two daemons and three terminals: one that starts, two that do the rest. *)
(***************************************************************************)
EXTENDS Lifecycle, TLC

CONSTANTS c1, c2, c3

Terminals == {c1, c2, c3}

Three(k1, k2, k3) == (c1 :> k1) @@ (c2 :> k2) @@ (c3 :> k3)

\* A restart spawns the second daemon; a second stop finds the first one draining; a
\* watcher takes the only slot.
Mixes == {Three("start", "restart", "watch"), Three("start", "stop", "stop"),
          Three("start", "stop", "index"), Three("start", "stop", "watch")}

TwoStops == {Three("start", "stop", "stop")}

============================================================================
