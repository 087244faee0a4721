------------------------------ MODULE MCServer ------------------------------
(* Model values for Server: a plain connection and two over TLS.           *)
EXTENDS Server

CONSTANTS h1, t1, t2

MCTlsConns == Conns \cap {t1, t2}
=============================================================================
