------------------------------ MODULE MCServer ------------------------------
EXTENDS Server

CONSTANTS http, https

File == <<"/", "a">>
AnyChar == <<"/", "?">>
Folder == <<"/", "a", "/", "#">>

MCPaths == {File, AnyChar, Folder}
MCUris == {<<"/", "a">>, <<"/", "a", "/", "b">>}

Request(path, async) == [op |-> "request", path |-> path, async |-> async]
Fallback(async) == [op |-> "fallback", async |-> async]
OneAsset(path, extras) == [op |-> "asset", path |-> path, extras |-> extras]
Directory(path) == [op |-> "assets", path |-> path]
WithTls(form, ca, pair) == [op |-> "use_tls", form |-> form, ca |-> ca, pair |-> pair]

HttpsCalls ==
    {Request(File, FALSE), Request(AnyChar, TRUE), Fallback(TRUE),
     OneAsset(File, TRUE), OneAsset(Folder, FALSE), Directory(Folder)}
    \union {WithTls(form, ca, "text") : form \in {"string", "view"}, ca \in {"absent", "text"}}
    \union {WithTls("string", "empty", "empty")}

\* Every kind of call on one endpoint, a few on the other.
MCCalls ==
    {[e |-> https, what |-> w] : w \in HttpsCalls}
    \union {[e |-> http, what |-> Request(AnyChar, FALSE)]}
=============================================================================
