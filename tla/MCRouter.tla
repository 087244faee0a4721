------------------------------ MODULE MCRouter ------------------------------
(* An instance of Router for TLC: which requests the clients send.         *)
EXTENDS Router, TLC

CONSTANTS a, b, c, bad,   \* contents, the last of which is not valid
          r1, r2, r3

Target(path, id) == [path |-> path, id |-> id]
Send(verb, target, json, body, value) ==
    [verb |-> verb, target |-> target, json |-> json, body |-> body, value |-> value]

Targets ==
    {Target(path, 0) : path \in {"healthz", "cookable", "unknown"}}
    \cup {Target(kind, id) : kind \in Kinds, id \in -1 .. 1}

OneProduct == Target("products", 1)

\* Every method on every target, and the bad bodies on those that take one.
AllRequests ==
    {Send(verb, target, TRUE, "ok", b) :
        verb \in {"get", "post", "put", "delete"}, target \in Targets}
    \cup {Send("patch", OneProduct, TRUE, "ok", b)}
    \cup {Send("put", OneProduct, body # "other", body, bad) :
        body \in {"ok", "other", "malformed", "badDimension"}}
    \cup {Send("post", Target("recipes", 0), TRUE, "badDimension", bad)}

\* Any request meets one that reads or deletes a product, and one that puts it.
MCRequests ==
    [s \in Sessions |->
        CASE s = r1 -> AllRequests
          [] s = r2 -> {Send(verb, OneProduct, TRUE, "ok", b) : verb \in {"get", "delete"}}
          [] s = r3 -> {Send("put", OneProduct, TRUE, "ok", c)}]
=============================================================================
