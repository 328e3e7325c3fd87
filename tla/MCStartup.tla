------------------------------ MODULE MCStartup ------------------------------
(* Command lines at the boundaries of every flag. *)
EXTENDS Startup

Fields == {0, \h1a86, \hffff, \h10000, NotANumber}

Parts == {<<v, p>> : v \in Fields, p \in {\h5512, \hffff}}
    \cup {<<\h1a86>>, <<\h1a86, \h5512, 0>>}

Default ==
    [flags |-> "ok", positional |-> 0, version |-> FALSE, httpAddr |-> "host:port",
     usbIDs |-> << <<\h1a86, \h5512>> >>, i2cAddress |-> \h11, speed |-> 100,
     logLevel |-> "info", logFormat |-> "json"]

MCCommandLines ==
    {[Default EXCEPT !.usbIDs = ids] : ids \in UNION {[1..n -> Parts] : n \in 1..3}}
    \cup [flags: {"ok", "help", "unknown"}, positional: {0, 1}, version: BOOLEAN,
          httpAddr: {"host:port", "invalid"}, usbIDs: {Default.usbIDs, << <<0>> >>},
          i2cAddress: {NotANumber, 0, \h11, \h7f, \h80, \h100, \h111},
          speed: {-1, 0, 20, 100, 101, 400, 750, 1000},
          logLevel: {"info", "trace"}, logFormat: {"text", "xml"}]

=============================================================================
