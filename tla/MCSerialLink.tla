---------------------------- MODULE MCSerialLink ----------------------------
(* The link with two writers, the second the thread of a cancelled task,   *)
(* and a backoff that doubles twice before it meets its cap.               *)
EXTENDS SerialLink
=============================================================================
