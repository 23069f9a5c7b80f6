----------------------------- MODULE MCLuaEngine -----------------------------
(***************************************************************************)
(* An instance of LuaEngine for TLC: a handle with room for three userdata *)
(* (one in use, one awaiting its __gc, one more), two functions on two     *)
(* threads of the game, a native to hook.                                  *)
(***************************************************************************)
EXTENDS LuaEngine, TLC

CONSTANTS h1, u1, u2, u3, f1, f2, t1, t2, n1

MCHandle == {h1}
MCUserdata == {u1, u2, u3}
MCFunc == {f1, f2}
MCThread == {t1, t2}
MCName == {n1}

\* No definition tells userdata, functions or threads apart.
Symmetry == Permutations(MCUserdata) \cup Permutations(MCFunc) \cup Permutations(MCThread)
=============================================================================
