--------------------------- MODULE MCQueryClient ----------------------------
(* An instance of QueryClient for TLC. *)
EXTENDS QueryClient

=============================================================================
