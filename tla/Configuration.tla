---------------------------- MODULE Configuration ----------------------------
(***************************************************************************)
(* The configuration (config/load.go, config/config.go).  A start merges   *)
(* the files of the machine, of the program (the data file) and of the     *)
(* project, asks for the known providers (ProviderCache), keeps those that *)
(* can be used and selects a large and a small model, falling back to a    *)
(* default one, which it stores in the data file.  Later changes of the    *)
(* user go to the data file as well, one field at a time, each time        *)
(* reading all of it and writing all of it.                                *)
(*                                                                         *)
(* A file is a function from paths to values; the value of a path that     *)
(* ends in "models" is a sequence of models.                               *)
(***************************************************************************)
EXTENDS ProviderCache, SequencesExt

CONSTANTS Known,      \* the known providers of each list, in its order
          Anthropic,  \* the models whose name has the prefix bedrock asks for
          Alphabet,   \* the names of the providers that are not known, in order
          Sites,      \* the surroundings of the program: files and what resolves
          Entered,    \* the providers a user enters a key for,
          Keys,       \* the keys he enters, also an empty one,
          Preferences, \* the models he prefers, a provider with a name, existing or not,
          MaxChanges  \* and how many changes he makes

VARIABLES
    site,    \* the files nobody writes, and the values that resolve
    data,    \* the data file
    step,    \* where each start or change is,
    config,  \* the merged files it has read,
    prov,    \* its providers,
    pick,    \* its selected models,
    jobs,    \* the fields it still has to set,
    text,    \* what it read of the data file to set one,
    loading, \* and whether Load still runs
    \* history: how many changes there were, what was stored, whether a
    \* writer disturbed another or did not finish, and what had been stored
    \* when each start read the files
    changes, saved, hurt, before

settings   == <<site, data, step, config, prov, pick, jobs, text, loading, changes, saved, hurt, before>>
configVars == <<cacheVars, settings>>

Types == {"large", "small"}
None  == [x \in {} |-> ""]

-----------------------------------------------------------------------------
(* Files: merged field by field, arrays one after the other.               *)

Overlay(c, d) ==
    [x \in DOMAIN c \cup DOMAIN d |->
        IF x \notin DOMAIN d THEN c[x]
        ELSE IF x \in DOMAIN c /\ Last(x) = "models" THEN c[x] \o d[x]
        ELSE d[x]]

Broken == {Bare, Torn}
Text(d) == IF d \in {NoFile} \cup Broken THEN None ELSE d

Merged == Overlay(Overlay(site.global, Text(data)), site.project)

Value(c, path, default) == IF path \in DOMAIN c THEN c[path] ELSE default
Under(c, path)          == {x \in DOMAIN c : IsPrefix(path, x)}

\* sjson.Set replaces what is at the path by the value with its fields.
SetAt(c, path, v) ==
    [x \in (DOMAIN c \ Under(c, path)) \cup {path \o y : y \in DOMAIN v} |->
        IF IsPrefix(path, x) THEN v[SubSeq(x, Len(path) + 1, Len(x))] ELSE c[x]]

-----------------------------------------------------------------------------
(* The providers that can be used.                                         *)

Resolves(v) == v # "" /\ v \in site.resolves

Of(c, id, field, default) == Value(c, <<"providers", id, field>>, default)
Disabled(c, id)           == Of(c, id, "disable", "no") = "yes"

\* An empty field is none.
Given(c, id, field, default) ==
    LET v == Of(c, id, field, "") IN IF v = "" THEN default ELSE v

Distinct(s) == FoldLeft(LAMBDA seen, m : IF Contains(seen, m) THEN seen ELSE Append(seen, m), <<>>, s)

\* What the user configures for a known provider overrides or adds to it.
Prepared(c, p) ==
    [key    |-> Given(c, p.id, "api_key", p.key),
     url    |-> Given(c, p.id, "base_url", p.url),
     models |-> LET own == Of(c, p.id, "models", <<>>)
                IN  IF own = <<>> THEN p.models ELSE Distinct(own \o p.models)]

hasVertexCredentials == Resolves("VERTEXAI_PROJECT") /\ Resolves("VERTEXAI_LOCATION")

hasAWSCredentials ==
    \/ Resolves("AWS_ACCESS_KEY_ID") /\ Resolves("AWS_SECRET_ACCESS_KEY")
    \/ \E v \in {"AWS_PROFILE", "AWS_DEFAULT_PROFILE", "AWS_REGION", "AWS_DEFAULT_REGION",
                "AWS_CONTAINER_CREDENTIALS_RELATIVE_URI", "AWS_CONTAINER_CREDENTIALS_FULL_URI"} : Resolves(v)

Usable(p, q) ==
    CASE p.id = "vertexai" -> hasVertexCredentials
      [] p.id = "azure"    -> Resolves(q.url)
      [] p.id = "bedrock"  -> hasAWSCredentials
      [] OTHER             -> Resolves(q.key)

Kept(c, known) ==
    {p \in ToSet(known) : ~Disabled(c, p.id) /\ Usable(p, Prepared(c, p))}

Named(known) == {p.id : p \in ToSet(known)}

\* Providers nobody knows need an address, models and a type that is supported.
Custom(c, known) ==
    {id \in ToSet(Alphabet) \ Named(known) :
        /\ Under(c, <<"providers", id>>) # {}
        /\ ~Disabled(c, id)
        /\ Resolves(Of(c, id, "base_url", ""))
        /\ Of(c, id, "models", <<>>) # <<>>
        /\ Given(c, id, "type", "openai") \in {"openai", "anthropic"}}

configureProviders(c, known) ==
    [id \in {p.id : p \in Kept(c, known)} \cup Custom(c, known) |->
        IF id \in Named(known)
        THEN Prepared(c, CHOOSE p \in ToSet(known) : p.id = id)
        ELSE [key |-> Of(c, id, "api_key", ""), url |-> Of(c, id, "base_url", ""),
              models |-> Of(c, id, "models", <<>>)]]

BedrockRefused(c, known) ==
    \E p \in Kept(c, known) :
        p.id = "bedrock" /\ ~(ToSet(Prepared(c, p).models) \subseteq Anthropic)

-----------------------------------------------------------------------------
(* The selected models.                                                    *)

Model(id, m)     == [x \in {<<"provider">>, <<"model">>} |-> IF x = <<"provider">> THEN id ELSE m]
GetModel(ps, s)  == s[<<"provider">>] \in DOMAIN ps /\ s[<<"model">>] \in ToSet(ps[s[<<"provider">>]].models)

\* The first known provider that is kept decides, even when it cannot.
defaultModelSelection(ps, known) ==
    LET kept == SelectSeq(known, LAMBDA p : p.id \in DOMAIN ps)
        own  == SelectSeq(Alphabet, LAMBDA id : id \in DOMAIN ps)
    IN  IF kept # <<>>
        THEN [large |-> Model(kept[1].id, kept[1].large), small |-> Model(kept[1].id, kept[1].small)]
        ELSE [t \in Types |-> Model(own[1], ps[own[1]].models[1])]

DefaultsExist(ps, known) == \A t \in Types : GetModel(ps, defaultModelSelection(ps, known)[t])

\* A field that is not configured, or empty, is the default's.
Wanted(c, t, default) ==
    [x \in DOMAIN default |-> IF Value(c, <<"models", t>> \o x, "") = "" THEN default[x]
                              ELSE c[<<"models", t>> \o x]]

Falls(c, ps, t, default) == Under(c, <<"models", t>>) # {} /\ ~GetModel(ps, Wanted(c, t, default))

\* Variant: the fallback is only looked for when both fields are configured.
SelectedUnlessHalf(c, ps, defaults) ==
    [t \in Types |-> IF Falls(c, ps, t, defaults[t]) /\ Cardinality(Under(c, <<"models", t>>)) = 2
                     THEN defaults[t] ELSE Wanted(c, t, defaults[t])]

configureSelectedModels(c, ps, defaults) ==
    [t \in Types |-> IF Falls(c, ps, t, defaults[t]) THEN defaults[t] ELSE Wanted(c, t, defaults[t])]

-----------------------------------------------------------------------------
(* Load.                                                                   *)

Init ==
    /\ CacheInit
    /\ site \in Sites
    /\ data = site.data
    /\ step    = [l \in Loads |-> "new"]
    /\ config  = [l \in Loads |-> None]
    /\ prov    = [l \in Loads |-> None]
    /\ pick    = [l \in Loads |-> [t \in Types |-> None]]
    /\ jobs    = [l \in Loads |-> <<>>]
    /\ text    = [l \in Loads |-> None]
    /\ loading = [l \in Loads |-> TRUE]
    /\ changes = 0 /\ hurt = FALSE
    /\ saved = LET c == Text(data)
               IN  [x \in {y \in {<<"models", t>> : t \in Types} :
                               {y \o <<"provider">>, y \o <<"model">>} \subseteq DOMAIN c} |->
                      Model(c[x \o <<"provider">>], c[x \o <<"model">>])]
    /\ before  = [l \in Loads |-> None]

history == <<changes, saved, hurt, before>>

Moves(l, from, to) == step[l] = from /\ step' = [step EXCEPT ![l] = to] /\ UNCHANGED site

\* The files are read and the known providers asked for.
Start(l) ==
    /\ data \notin Broken
    /\ Ask(l)
    /\ Moves(l, "new", "asked")
    /\ config' = [config EXCEPT ![l] = Merged]
    /\ before' = [before EXCEPT ![l] = saved]
    /\ UNCHANGED <<data, prov, pick, jobs, text, loading, changes, saved, hurt>>

StartFails(l) ==
    /\ data \in Broken /\ once[host[l]] # "dead"
    /\ Moves(l, "new", "failed")
    /\ UNCHANGED <<cacheVars, data, config, prov, pick, jobs, text, loading, history>>

KnownTo(l) == IF asked[l] = "ok" THEN Known[list[host[l]]] ELSE <<>>

\* What Load finds out once it has the providers.
Found(l, kept) ==
    /\ asked[l] \in {"ok", "error"} /\ once[host[l]] # "dead"
    /\ prov'   = [prov EXCEPT ![l] = kept]
    /\ config' = [config EXCEPT ![l] = None]
    /\ UNCHANGED <<cacheVars, data, text, history>>

Refused(l) ==
    LET known == KnownTo(l)  ps == configureProviders(config[l], known)
    IN  \/ known = <<>>
        \/ BedrockRefused(config[l], known)
        \/ ps # None /\ ~DefaultsExist(ps, known)

Refuse(l) ==
    /\ Moves(l, "asked", "failed")
    /\ Refused(l)
    /\ Found(l, None)
    /\ UNCHANGED <<pick, jobs, loading>>

\* A model as the files have it, whether there is such a model or not.
Configured(c, t) ==
    LET field(f) == Value(c, <<"models", t, f>>, "")
    IN  IF Under(c, <<"models", t>>) = {} THEN None ELSE Model(field("provider"), field("model"))

\* No provider at all is no error: the user is asked for a key, and the models
\* stay what the files say.
Unconfigured(l) ==
    /\ Moves(l, "asked", "ready")
    /\ ~Refused(l) /\ configureProviders(config[l], KnownTo(l)) = None
    /\ Found(l, None)
    /\ pick' = [pick EXCEPT ![l] = [t \in Types |-> Configured(config[l], t)]]
    /\ loading' = [loading EXCEPT ![l] = FALSE]
    /\ UNCHANGED jobs

\* UpdatePreferredModel and SetProviderAPIKey, as what they set in the file
SetModel(t, s) == [path |-> <<"models", t>>, value |-> s]
SetKey(id, k)  == [path |-> <<"providers", id, "api_key">>, value |-> [x \in {<<>>} |-> k]]

\* The models are selected; a fallback has to be stored, first the large one.
Configure(l) ==
    LET ps       == configureProviders(config[l], KnownTo(l))
        defaults == defaultModelSelection(ps, KnownTo(l))
        fix(t)   == IF Falls(config[l], ps, t, defaults[t]) THEN <<SetModel(t, defaults[t])>> ELSE <<>>
        fixes    == fix("large") \o fix("small")
    IN  /\ ~Refused(l) /\ ps # None
        /\ Moves(l, "asked", IF fixes = <<>> THEN "ready" ELSE "get")
        /\ Found(l, ps)
        /\ pick' = [pick EXCEPT ![l] = configureSelectedModels(config[l], ps, defaults)]
        /\ jobs' = [jobs EXCEPT ![l] = fixes]
        /\ loading' = [loading EXCEPT ![l] = fixes # <<>>]

-----------------------------------------------------------------------------
(* SetConfigField.                                                         *)

Writes(l) == step[l] \in {"open", "put"}

Get(l) ==
    /\ Moves(l, "get", "open")
    /\ text' = [text EXCEPT ![l] = data]
    /\ hurt' = (hurt \/ \E k \in Loads \ {l} : Writes(k))
    /\ UNCHANGED <<cacheVars, data, config, prov, pick, jobs, loading, changes, saved, before>>

OpenData(l) ==
    /\ Moves(l, "open", "put")
    /\ data' = Bare
    /\ UNCHANGED <<cacheVars, config, prov, pick, jobs, text, loading, history>>

\* Variant: the file is replaced by the field.
FieldAlone(l) == SetAt(None, Head(jobs[l]).path, Head(jobs[l]).value)

NewText(l) == IF text[l] = Torn THEN Torn ELSE SetAt(Text(text[l]), Head(jobs[l]).path, Head(jobs[l]).value)

\* SetProviderAPIKey changes the provider once the file is written; one that
\* was not usable is made from the known one, and one nobody knows is an error.
WithKey(l, id, k) ==
    IF id \in DOMAIN prov[l] THEN [prov[l] EXCEPT ![id].key = k]
    ELSE IF id \in Named(KnownTo(l))
         THEN LET p == CHOOSE p \in ToSet(KnownTo(l)) : p.id = id
              IN  [i \in DOMAIN prov[l] \cup {id} |->
                      IF i = id THEN [key |-> k, url |-> p.url, models |-> p.models] ELSE prov[l][i]]
         ELSE prov[l]

PutData(l) ==
    LET job == Head(jobs[l])  more == Tail(jobs[l]) # <<>>
    IN  /\ Moves(l, "put", IF more THEN "get" ELSE "ready")
        /\ data'  \in Written(data, NewText(l))
        /\ saved' = [x \in {job.path} \cup DOMAIN saved |-> IF x = job.path THEN job.value ELSE saved[x]]
        /\ jobs'  = [jobs EXCEPT ![l] = Tail(@)]
        /\ text'  = [text EXCEPT ![l] = None]
        /\ prov'  = IF job.path[1] = "models" THEN prov
                    ELSE [prov EXCEPT ![l] = WithKey(l, job.path[2], job.value[<<>>])]
        /\ loading' = [loading EXCEPT ![l] = @ /\ more]
        /\ UNCHANGED <<cacheVars, config, pick, changes, hurt, before>>

\* Reading, opening or writing fails: Load with it, a change of the user is refused.
SetFails(l, from) ==
    /\ Moves(l, from, IF loading[l] THEN "failed" ELSE "ready")
    /\ IF from = "put" THEN data' \in Broken /\ hurt' = TRUE ELSE UNCHANGED <<data, hurt>>
    /\ jobs' = [jobs EXCEPT ![l] = <<>>]
    /\ text' = [text EXCEPT ![l] = None]
    /\ UNCHANGED <<cacheVars, config, prov, pick, loading, changes, saved, before>>

\* A change of the user.
Change(l, job) ==
    /\ Moves(l, "ready", "get")
    /\ changes < MaxChanges /\ changes' = changes + 1
    /\ jobs' = [jobs EXCEPT ![l] = <<job>>]
    /\ UNCHANGED <<cacheVars, data, config, prov, text, loading, saved, hurt, before>>

\* Nobody looks whether there is such a model.
UpdatePreferredModel(l) ==
    \E t \in Types, chosen \in Preferences :
        LET s == Model(chosen[1], chosen[2])
        IN  pick' = [pick EXCEPT ![l][t] = s] /\ Change(l, SetModel(t, s))

SetProviderAPIKey(l) ==
    \E id \in Entered, k \in Keys : Change(l, SetKey(id, k)) /\ UNCHANGED pick

\* The process ends in the middle of anything.
End(p) ==
    LET its == {l \in Loads : host[l] = p}
    IN  /\ Die(p)
        /\ step' = [l \in Loads |-> IF l \in its THEN "dead" ELSE step[l]]
        /\ hurt' = (hurt \/ \E l \in its : step[l] = "put")
        /\ jobs' = [l \in Loads |-> IF l \in its THEN <<>> ELSE jobs[l]]
        /\ text' = [l \in Loads |-> IF l \in its THEN None ELSE text[l]]
        /\ UNCHANGED <<site, data, config, prov, pick, loading, changes, saved, before>>

Next ==
    \/ \E l \in Loads :
          \/ Start(l) \/ StartFails(l) \/ Refuse(l) \/ Unconfigured(l) \/ Configure(l)
          \/ Get(l) \/ OpenData(l) \/ PutData(l)
          \/ \E from \in {"get", "open", "put"} : SetFails(l, from)
          \/ UpdatePreferredModel(l) \/ SetProviderAPIKey(l)
    \/ \E p \in Procs : End(p)
    \/ ProviderStep /\ UNCHANGED settings

Spec == Init /\ [][Next]_configVars

-----------------------------------------------------------------------------
(* What must hold.                                                         *)

HasModel(l, t) == pick[l][t] # None /\ GetModel(prov[l], pick[l][t])

\* A start that finds a provider ends with two models its providers have,
\* whatever the files said and also when it had to store a fallback first, and
\* a model that is there is only taken away by the user's own choice, never by
\* a key he enters (load.go:446, config.go:285, 375-416).
SelectedModelsExist ==
    [][\A l \in Loads :
         /\ loading[l] /\ ~loading'[l] /\ prov'[l] # None => \A t \in Types : HasModel(l, t)'
         /\ \A t \in Types :
               ~loading[l] /\ HasModel(l, t) /\ pick'[l][t] = pick[l][t] => HasModel(l, t)'
      ]_configVars

\* What was stored is what the next start selects: a model, if the providers
\* of that start have it and the project has none of its own (an empty name is
\* none), and a key of a provider it keeps, if the key is not empty: an empty one
\* does not take the place of the provider's own (config.go:346-382,
\* load.go:137-142, 446).  Unless the data file was hurt: by two writers at once
\* or by one that did not finish.
ChangesSurvive ==
    [][\A l \in Loads : step[l] = "asked" /\ prov'[l] # prov[l] /\ ~hurt =>
         \A x \in DOMAIN before[l] : Under(site.project, x) = {} =>
             LET v == before[l][x] IN
             \/ /\ x[1] = "models"
                /\ GetModel(prov'[l], v) /\ (\A y \in DOMAIN v : v[y] # "") => pick'[l][x[2]] = v
             \/ /\ x[1] = "providers"
                /\ v[<<>>] # "" /\ x[2] \in DOMAIN prov'[l] => prov'[l][x[2]].key = v[<<>>]
      ]_configVars
=============================================================================
