--------------------------- MODULE MCConfiguration ---------------------------
(* Two starts, in one process or in two.  With the first surroundings all  *)
(* the ways of the cache are taken and the user changes nothing; with the  *)
(* others the starts find a fresh cache and nobody updates it, and the     *)
(* user makes his changes in between.                                      *)
EXTENDS Configuration

CONSTANTS start1, start2, proc1, proc2, v1, v2

\* The second process or the same one again.
MCHosts == {[l \in {start1, start2} |-> proc1], [l \in {start1, start2} |-> IF l = start1 THEN proc1 ELSE proc2]}

KnownProvider(id, key, url, models, large, small) ==
    [id |-> id, key |-> key, url |-> url, models |-> models, large |-> large, small |-> small]

\* With the second list, a model is gone and so is a provider, the order is
\* another, and the defaults of one provider are not among its models.
MCKnown ==
    v1 :> << KnownProvider("openai", "$OPENAI", "", <<"big", "old">>, "big", "old"),
             KnownProvider("bedrock", "", "", <<"claude">>, "claude", "claude"),
             KnownProvider("azure", "", "$AZURE", <<"big">>, "big", "gone") >>
 @@ v2 :> << KnownProvider("vertexai", "", "", <<"gem">>, "gem", "gem"),
             KnownProvider("openai", "$OPENAI", "", <<"new", "big">>, "new", "big"),
             KnownProvider("bedrock", "", "", <<"claude", "llama">>, "claude", "claude") >>
 @@ NoList :> <<>>

\* A model of both lists, one that goes, one of the user's own, and none at all.
MCPreferences == {<<"openai", "big">>, <<"openai", "old">>, <<"local", "two">>, <<"lost", "one">>}

MCAlphabet == <<"empty", "local", "lost", "odd">>

Setting(path, v) == path :> v
Preferred(t, id, m) == Setting(<<"models", t, "provider">>, id) @@ Setting(<<"models", t, "model">>, m)
Server(id, url, models) ==
    Setting(<<"providers", id, "base_url">>, url) @@ Setting(<<"providers", id, "models">>, models)
Off(id) == Setting(<<"providers", id, "disable">>, "yes")

\* a key in the environment and a model stored that goes with the second list
First == [global |-> None, project |-> None, data |-> Preferred("large", "openai", "old"), resolves |-> {"$OPENAI"}]

MCSites == {
    First,
    \* nothing is stored yet
    [global |-> None, project |-> None, data |-> NoFile, resolves |-> {"$OPENAI"}],
    \* preferences for a model that goes, one of them by half in the project
    [global |-> Preferred("large", "openai", "old") @@ Server("local", "url", <<"big">>),
     project |-> Setting(<<"models", "small", "provider">>, "local"),
     data |-> None, resolves |-> {"$OPENAI", "url"}],
    \* models of one's own for a known provider, in two files
    [global |-> Setting(<<"providers", "openai", "models">>, <<"mine", "big">>),
     project |-> Setting(<<"providers", "openai", "models">>, <<"mine", "ours">>),
     data |-> Preferred("small", "openai", "ours"), resolves |-> {"$OPENAI"}],
    \* known providers are disabled, some of one's own cannot be used
    [global |-> Off("openai") @@ Server("local", "url", <<"one", "two">>) @@ Server("lost", "", <<"one">>)
                @@ Setting(<<"providers", "empty", "base_url">>, "url")
                @@ Server("odd", "url", <<"one">>) @@ Setting(<<"providers", "odd", "type">>, "gemini"),
     project |-> None, data |-> Preferred("large", "local", "two"), resolves |-> {"$OPENAI", "url"}],
    \* nothing can be used, not the stored model either, until the user enters a key
    [global |-> None, project |-> None, data |-> Preferred("large", "openai", "old"), resolves |-> {"key"}],
    \* providers that take credentials from the environment
    [global |-> None, project |-> None, data |-> NoFile,
     resolves |-> {"AWS_PROFILE", "VERTEXAI_PROJECT", "VERTEXAI_LOCATION"}],
    [global |-> None, project |-> None, data |-> NoFile, resolves |-> {"$AZURE"}] }
MCInit == Init /\ (cache = NoFile => fresh) /\ (site # First => cache \in Lists /\ fresh)
MCSpec == MCInit /\ [][Next]_configVars

\* What comes after a writer disturbed another is not followed.
Narrow ==
    /\ ~hurt
    /\ IF site = First THEN changes = 0
       ELSE fresh /\ catalogue = v1 /\ \A x \in Procs : bg[x] \in {"none", "fetch"}
=============================================================================
