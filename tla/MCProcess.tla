------------------------------ MODULE MCProcess ------------------------------
(* An instance of Process for TLC: the command lines and the files.         *)
EXTENDS Process

CONSTANTS c1, c2

Listener(enabled, address, port) == [enabled |-> enabled, address |-> address, port |-> port]

Address(spelling, host, family) == [spelling |-> spelling, host |-> host, family |-> family]

Loopback == Address("127.0.0.1", "loopback", 4)
Any4     == Address("0.0.0.0", "any", 4)
Any6     == Address("::", "any", 6)
Local6   == Address("::1", "loopback", 6)
Long6    == Address("0:0:0:0:0:0:0:1", "loopback", 6)
Name     == Address("localhost", "none", 4)

\* A configuration that is valid, with both listeners.
Good ==
    [http |-> Listener(TRUE, Loopback, 8080), https |-> Listener(TRUE, Loopback, 8443),
     certificate |-> TRUE, private_key |-> TRUE,
     network_threads |-> 2, database_queue_capacity |-> 1, header_limit |-> 1, body_limit |-> 1,
     request_timeout_seconds |-> 1, shutdown_timeout_seconds |-> 1]

\* Both listeners on one port.
OnePort(http, https) ==
    [Good EXCEPT !.http = Listener(TRUE, http, 8443), !.https = Listener(TRUE, https, 8443)]

File(letters, capitals, content) ==
    [readable |-> TRUE, extension |-> [letters |-> letters, capitals |-> capitals], content |-> content]

JsonFile(content) == File("json", {}, content)

\* A good file in every format and spelling, two families on one port, files
\* Start cannot use, and files with one fault.
MCFileAt ==
    [missing   |-> [JsonFile(Good) EXCEPT !.readable = FALSE],
     json      |-> File("json", {1}, Good),
     yaml      |-> File("yaml", {}, Good),
     yml       |-> File("yml", 1 .. 3, Good),
     toml      |-> File("toml", {}, Good),
     malformed |-> JsonFile(Malformed),
     families  |-> JsonFile(OnePort(Any4, Local6)),
     overlap   |-> JsonFile(OnePort(Any4, Loopback)),
     both      |-> JsonFile(OnePort(Any6, Loopback)),
     spelling  |-> JsonFile(OnePort(Local6, Long6)),
     plainName |-> JsonFile([Good EXCEPT !.http.address = Name]),
     tlsName   |-> JsonFile([Good EXCEPT !.https.address = Name]),
     same      |-> JsonFile(OnePort(Loopback, Loopback)),
     unwanted  |-> JsonFile([Good EXCEPT !.http.enabled = FALSE, !.https.enabled = FALSE]),
     threads   |-> JsonFile([Good EXCEPT !.network_threads = 0]),
     capacity  |-> JsonFile([Good EXCEPT !.database_queue_capacity = 0]),
     header    |-> JsonFile([Good EXCEPT !.header_limit = 0]),
     body      |-> JsonFile([Good EXCEPT !.body_limit = 0]),
     request   |-> JsonFile([Good EXCEPT !.request_timeout_seconds = 0]),
     shutdown  |-> JsonFile([Good EXCEPT !.shutdown_timeout_seconds = 0]),
     key       |-> JsonFile([Good EXCEPT !.private_key = FALSE])]

Token(option, value) == [option |-> option, value |-> value]

Switches == {Token(option, Empty) : option \in OptionsOf(BoolFlags) \cup Commands}

Outputs ==
    {Token(option, path) : option \in {"--json-out", "--yaml-out"},
                           path \in {"out/info.json", "out/info.yaml", "out/other"}}

Faulty ==
    {Token("--unknown", Empty), Token("--json", "out/other"), Token("--json-out", Empty),
     Token("--server-config", Empty), Token("--list-products", "out/other")}

ServerAt(path) == <<Token("--server-config", path)>>

Arguments == Switches \cup Outputs \cup Faulty \cup {Token("--db-path", "out/other")}

\* No argument; one; any two; two output paths before a third; a configuration.
MCArgLists ==
    {<<>>} \cup {<<x>> : x \in Arguments} \cup {<<x, y>> : x, y \in Arguments}
    \cup {<<x, y, z>> : x, y, z \in Outputs}
    \cup {ServerAt(path) : path \in Paths}
    \cup {ServerAt("json") \o <<x>> : x \in Arguments}

\* The server is started, and nothing else.
JustServe == {ServerAt("json")}
=============================================================================
