------------------------------ MODULE MCServer ------------------------------
(* Instances of Server for TLC.                                            *)
EXTENDS Server

Msg(id, method) == [id |-> id, method |-> method]

\* A call, a notification, a known and an unknown method without an id, a blank
\* line, a line over MAX_LINE, and batches, one of which cannot be dispatched.
MCLines ==
    {<< <<Msg(TRUE, "known")>> >>,
     << <<Msg(FALSE, "notification")>> >>,
     << <<Msg(FALSE, "known")>> >>,
     << <<>> >>,
     << <<Garbage>>, <<Garbage>> >>,
     << <<Msg(FALSE, "unknown"), Msg(TRUE, "unknown"), Msg(FALSE, "none")>> >>,
     << <<Msg(TRUE, "known"), Msg(FALSE, "number")>> >>}

=============================================================================
