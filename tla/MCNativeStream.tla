--------------------------- MODULE MCNativeStream ---------------------------
(* Two slots of the native server, with all its doors and a browser. *)
EXTENDS NativeStream

=============================================================================
