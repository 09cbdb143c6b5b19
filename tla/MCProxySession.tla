--------------------------- MODULE MCProxySession ---------------------------
(* One session over two paths, one of them in the manifest.                *)
EXTENDS ProxySession

CONSTANTS listed, other

MCPaths == {listed, other}
MCManifest == {listed}

Req(k, p, f, form) == [kind |-> k, path |-> p, flag |-> f, form |-> form]

\* Every kind of request, and every way the arguments of one can be bad.
MCRequests ==
    {Req("isvalid", listed, "0", "good"), Req("isvalid", other, "0", "good"),
     Req("isvalid", listed, "0", "bad"),
     Req("query", listed, "0", "good"),
     Req("queryvalid", listed, "0", "good"), Req("queryvalid", listed, "1", "good"),
     Req("queryvalid", listed, "0", "bad"),
     Req("setoptions", listed, "0", "good"), Req("setoptions", listed, "0", "bad"),
     Req("denied", listed, "0", "good")}

\* Two requests in a row, the second possibly sent before the first is
\* answered: one request of each kind that takes a way of its own.
MCPipeline ==
    {Req("isvalid", listed, "0", "good"), Req("isvalid", other, "0", "good"),
     Req("query", listed, "0", "good"), Req("queryvalid", listed, "1", "good"),
     Req("setoptions", listed, "0", "good"), Req("denied", listed, "0", "good")}
=============================================================================
