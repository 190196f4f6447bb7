--------------------------- MODULE MCRequestQueue ---------------------------
(* TLC instances of RequestQueue; requests are strings.                    *)
EXTENDS RequestQueue
=============================================================================
