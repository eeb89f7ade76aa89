---------------------------- MODULE MCSaharaSync ----------------------------
(***************************************************************************)
(* Topologies on which SaharaSync is checked; r is the root.               *)
(***************************************************************************)
EXTENDS SaharaSync

CONSTANTS r, a, b, c, d

\* Two children that do not hear each other.
Star == {{r, a}, {r, b}}

\* Two children that do: each stores the link it is not a tree edge of.
Triangle == {{r, a}, {r, b}, {a, b}}

\* A chain: a relays between the root and b.
Line == {{r, a}, {a, b}}

\* A cycle, and c below one of its nodes.
Kite == {{r, a}, {r, b}, {a, b}, {b, c}}

\* Three levels; c and d choose b, hear each other, and queue at b.
Tree == {{r, a}, {r, b}, {a, b}, {b, c}, {b, d}, {c, d}}
=============================================================================
