------------------------------ MODULE MCHttpApi ------------------------------
(* Requests that reach every branch of the handlers. *)
EXTENDS HttpApi, TLC

Plain(path) ==
    [path |-> path, method |-> methodOf(path), header |-> "secret", query |-> "",
     body |-> "valid"]

MCRequests ==
    {Plain(path) : path \in BusinessPaths}
    \cup {[Plain("/mfi/sign") EXCEPT !.method = "GET"],
          [Plain("/mfi/sign") EXCEPT !.body = "not_base64"],
          [Plain("/mfi/certificate") EXCEPT !.header = "", !.query = "secret"],
          [Plain("/debug/usb") EXCEPT !.header = "", !.query = "secret"],
          [Plain("/debug/usb") EXCEPT !.header = "wrong", !.query = "secret"],
          [Plain("/healthz") EXCEPT !.header = ""],
          Plain("/")}

HandlerSymmetry == Permutations(Handlers)

=============================================================================
