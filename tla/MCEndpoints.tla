---------------------------- MODULE MCEndpoints ----------------------------
EXTENDS Endpoints

(* No path, and a prefix with a slash at its end.                          *)
BasePaths == {<<>>, <<"/", "api", "/">>}
=============================================================================
