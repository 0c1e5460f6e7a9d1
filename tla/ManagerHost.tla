---------------------------- MODULE ManagerHost ----------------------------
(***************************************************************************)
(* External: the manager as a broker's link meets it.                      *)
(***************************************************************************)

VARIABLES
    host,       \* address -> how the manager behaves there
    cancelled   \* the broker has been told to stop

\* "good" accepts; "down" refuses connections and breaks the ones it has; "reject" answers
\* the handshake with an error, "notacceptable" with 406; "silent" does not answer.
Behaviour == {"good", "down", "reject", "notacceptable", "silent"}
=============================================================================
