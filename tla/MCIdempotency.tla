--------------------------- MODULE MCIdempotency ---------------------------
(* Small instances of Idempotency. *)
EXTENDS Idempotency

Input(subject, route, value) ==
    [subject |-> subject, route |-> route, body |-> [value |-> value, expected |-> 1]]

\* Two drafts of one caller and a gRPC request of another.  All expect version 1,
\* so that a draft may create the entry and then update it.
SomeInputs ==
    {Input("ann", "put-draft", "x"), Input("ann", "put-draft", "y"), Input("bob", "Publish", "x")}
=============================================================================
