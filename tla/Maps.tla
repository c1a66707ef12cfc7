-------------------------------- MODULE Maps --------------------------------
(***************************************************************************)
(* The maps of the panels (std::map) as functions.                         *)
(***************************************************************************)

EmptyMap == [x \in {} |-> 0]

(* every entry of f, and those of g whose key f lacks                      *)
Over(f, g) ==
  [x \in DOMAIN f \union DOMAIN g |-> IF x \in DOMAIN f THEN f[x] ELSE g[x]]
=============================================================================
