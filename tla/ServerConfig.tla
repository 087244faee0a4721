---------------------------- MODULE ServerConfig ----------------------------
(***************************************************************************)
(* config::LoadServerConfig: a file, by its extension, into a record of    *)
(* settings, which ValidateServerConfig accepts or not.  A file is         *)
(*   [readable, extension, content], its content Malformed or a record of  *)
(* the settings it holds, the defaults of the struct filled in (the work   *)
(* of Glaze, external).  An extension is                                   *)
(*   [letters, capitals], the positions of the capitals among its letters. *)
(* The address of a listener is a text, here a record of its               *)
(*   [spelling, host, family]: the host the text denotes, AnyHost for the  *)
(* wildcard and NoHost for what make_address refuses, and its family.      *)
(* Of the TLS paths only whether they are empty counts; server name, chain *)
(* and HSTS are never validated.                                           *)
(***************************************************************************)
EXTENDS Integers

CONSTANTS Malformed, \* text that does not parse
          Invalid    \* no configuration

\* LowercaseExtension: however it is written.
Extension(written) == [written EXCEPT !.capitals = {}]

\* The extensions there is a parser for.
Supported == {[letters |-> format, capitals |-> {}] : format \in {"json", "yaml", "yml"}}

Listeners == {"http", "https"}

EnabledIn(config) == {p \in Listeners : config[p].enabled}

\* Nobody looks at the limits.
ValidateServerConfig_NoLimits(config) ==
    /\ EnabledIn(config) # {}
    /\ config.network_threads > 0
    /\ config.database_queue_capacity > 0
    /\ config.shutdown_timeout_seconds > 0
    /\ config.https.enabled => config.certificate /\ config.private_key
    /\ EnabledIn(config) = Listeners =>
           \/ config.http.address # config.https.address
           \/ config.http.port # config.https.port

\* Addresses are compared as texts, spelling and all: two that overlap, or two
\* spellings of one, pass, and so does a text that is no address; two equal ones
\* with the port 0, which never collide, do not.
ValidateServerConfig(config) ==
    /\ EnabledIn(config) # {}
    /\ config.network_threads > 0
    /\ config.database_queue_capacity > 0
    /\ config.header_limit > 0 /\ config.body_limit > 0 /\ config.request_timeout_seconds > 0
    /\ config.shutdown_timeout_seconds > 0
    /\ config.https.enabled => config.certificate /\ config.private_key
    /\ EnabledIn(config) = Listeners =>
           \/ config.http.address # config.https.address
           \/ config.http.port # config.https.port

LoadServerConfig(file) ==
    IF /\ file.readable
       /\ Extension(file.extension) \in Supported
       /\ file.content # Malformed
       /\ ValidateServerConfig(file.content)
    THEN file.content
    ELSE Invalid
-----------------------------------------------------------------------------
(* What those who are handed a configuration take for granted.             *)

\* DatabaseExecutor's constructor throws otherwise.
ExecutorAccepts(config) == config.database_queue_capacity > 0

AnyHost == "any"
NoHost == "none"

\* A socket bound to the wildcard takes what is meant for any host of its
\* family; that of IPv6 takes IPv4 as well (external: Linux, bindv6only off).
Covers(address, other) ==
    IF address.host = AnyHost
    THEN address.family = 6 \/ other.family = 4
    ELSE address.host = other.host /\ address.family = other.family

\* Two listeners that are to be bound to overlapping endpoints.
Overlap(config) ==
    /\ EnabledIn(config) = Listeners
    /\ config.http.port = config.https.port /\ config.http.port # 0
    /\ \/ Covers(config.http.address, config.https.address)
       \/ Covers(config.https.address, config.http.address)

\* ConfigureListener fails otherwise: at make_address, or at the bind of the
\* listener that comes second.
CanListen(config, protocol) ==
    /\ config[protocol].address.host # NoHost
    /\ protocol = "https" => ~Overlap(config)

\* Server::Start fails otherwise; a worker is started anyway.
ServerAccepts(config) ==
    /\ EnabledIn(config) # {}
    /\ config.https.enabled => config.certificate /\ config.private_key
    /\ \A protocol \in EnabledIn(config) : CanListen(config, protocol)

\* Otherwise a session's timers and limits would let no request pass, and Stop
\* would wait for none of them.
SessionsUsable(config) ==
    /\ config.request_timeout_seconds > 0
    /\ config.header_limit > 0 /\ config.body_limit > 0
    /\ config.shutdown_timeout_seconds > 0
=============================================================================
