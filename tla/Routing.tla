------------------------------- MODULE Routing ------------------------------
(***************************************************************************)
(* What an http::endpoint does with a URI: the listeners, assets and       *)
(* fallback registered so far, and which of them handle_http_message picks.*)
(* A path is a sequence of characters, a few of them wildcards. Callbacks  *)
(* and files are told apart by the number of the call that registered them.*)
(***************************************************************************)
EXTENDS Naturals, Sequences, FiniteSets

CONSTANTS
    Paths,  \* patterns that requests and assets are registered for
    Uris    \* URIs that clients ask for

ASSUME RoutingAssumption ==
    /\ Uris # {}
    /\ \A s \in Paths \union Uris : s \in Seq(STRING)

-----------------------------------------------------------------------------
\* mg_match: '?' stands for one character, '*' for characters up to a slash,
\* '#' for any characters. m[i, j]: the rest of path from i matches that of uri
\* from j.
MgMatch(uri, path) ==
    LET m[i \in 1..Len(path) + 1, j \in 1..Len(uri) + 1] ==
          IF i > Len(path) THEN j > Len(uri)
          ELSE LET one == j <= Len(uri)
               IN  IF path[i] \in {"*", "#"}
                   THEN m[i + 1, j] \/ (one /\ (path[i] = "#" \/ uri[j] # "/") /\ m[i, j + 1])
                   ELSE one /\ path[i] \in {"?", uri[j]} /\ m[i + 1, j + 1]
    IN  m[1, 1]

\* Computed once: the paths that match each URI.
Matching == [u \in Uris |-> {p \in Paths : MgMatch(u, p)}]

\* The slots of its third argument that mg_match writes: a capture for each
\* wildcard, and a null one that ends them.
MgSlots(path) == Cardinality({k \in DOMAIN path : path[k] \in {"?", "*", "#"}}) + 1

-----------------------------------------------------------------------------
\* A listener: the call that made it (0: none), which of the two callback types
\* it has, and m_groups.
Listener == [id : Nat, async : BOOLEAN, groups : Nat]
NoListener == [id |-> 0, async |-> FALSE, groups |-> 0]

\* An asset: its file or directory (0: not registered), and its mime type and
\* headers, which are given together or both empty (0).
Asset == [is_dir : BOOLEAN, path : Nat, extras : Nat]
NoAsset == [is_dir |-> FALSE, path |-> 0, extras |-> 0]

Routes == [listeners : [Paths -> Listener], assets : [Paths -> Asset], fallback : Listener]
NoRoutes == [listeners |-> [p \in Paths |-> NoListener],
             assets |-> [p \in Paths |-> NoAsset],
             fallback |-> NoListener]

count_groups(path) == Cardinality({k \in DOMAIN path : path[k] \in {"?", "*", "#"}})

\* Mutant of OnRequest: unordered_map::emplace keeps the listener that is there.
OnRequestEmplace(r, path, async, n) ==
    IF r.listeners[path] # NoListener THEN r
    ELSE [r EXCEPT !.listeners[path] =
            [id |-> n, async |-> async, groups |-> count_groups(path)]]

\* Mutant of OnRequest: listeners kept by value in a vector, which a new one moves.
OnRequestMoves(r, path, async, n) ==
    [r EXCEPT !.listeners =
       [p \in Paths |-> IF p = path
                        THEN [id |-> n, async |-> async, groups |-> count_groups(path)]
                        ELSE [@[p] EXCEPT !.id = IF @ = 0 THEN 0 ELSE n]]]

\* on_request and on_async_request: insert_or_assign destroys the listener that
\* had the path.
OnRequest(r, path, async, n) ==
    [r EXCEPT !.listeners[path] =
       [id |-> n, async |-> async, groups |-> count_groups(path)]]

\* on_fallback and on_async_fallback
OnFallback(r, async, n) ==
    [r EXCEPT !.fallback = [id |-> n, async |-> async, groups |-> 0]]

\* on_asset: the directory flag of an entry that is there stays.
OnAsset(r, path, extras, n) ==
    [r EXCEPT !.assets[path] =
       [is_dir |-> @.is_dir, path |-> n, extras |-> IF extras THEN n ELSE 0]]

\* on_assets: the mime type and headers of an entry that is there stay.
OnAssets(r, path, n) ==
    [r EXCEPT !.assets[path] = [is_dir |-> TRUE, path |-> n, extras |-> @.extras]]

-----------------------------------------------------------------------------
(***************************************************************************)
(* What serves a request: by is "listener", "fallback", "file", "dir" or   *)
(* "404"; id the call that registered it; slots the length of the vector   *)
(* of captures; root what mg_http_serve_dir takes for the directory's URI. *)
(***************************************************************************)
Outcome == [by : {"listener", "fallback", "file", "dir", "404"}, id : Nat, async : BOOLEAN,
            slots : Nat, extras : Nat, root : Seq(STRING)]
NotFound == [by |-> "404", id |-> 0, async |-> FALSE, slots |-> 0, extras |-> 0, root |-> <<>>]

Called(by, l, slots) ==
    [by |-> by, id |-> l.id, async |-> l.async, slots |-> slots, extras |-> 0, root |-> <<>>]

\* path.substr(0, path.size() - 2): the subtraction wraps for a shorter path,
\* and substr then takes all of it.
RootDir(path) == IF Len(path) < 2 THEN path ELSE SubSeq(path, 1, Len(path) - 2)

FromAsset(path, a) ==
    [by |-> IF a.is_dir THEN "dir" ELSE "file", id |-> a.path, async |-> FALSE, slots |-> 0,
     extras |-> a.extras, root |-> IF a.is_dir THEN RootDir(path) ELSE <<>>]

\* handle_http_message: some listener whose path matches, for the map has no
\* order; else some asset; else the fallback; else 404.
Serve(r, uri) ==
    LET listeners == {p \in Matching[uri] : r.listeners[p] # NoListener}
        assets == {p \in Matching[uri] : r.assets[p] # NoAsset}
    IN  IF listeners # {}
        THEN {Called("listener", r.listeners[p], r.listeners[p].groups + 1) : p \in listeners}
        ELSE IF assets # {} THEN {FromAsset(p, r.assets[p]) : p \in assets}
        ELSE IF r.fallback # NoListener THEN {Called("fallback", r.fallback, 0)}
        ELSE {NotFound}

=============================================================================
