------------------------- MODULE ConfigurationProofs -------------------------
(***************************************************************************)
(* The models a start selects exist, what was stored is what the next      *)
(* start selects, and the cache of the providers is enough when the        *)
(* catalogue does not answer: for any files, lists of providers, processes *)
(* and changes.                                                            *)
(***************************************************************************)
EXTENDS Configuration, SequenceTheorems, TLAPS

-----------------------------------------------------------------------------
(* The cache of the providers.                                             *)

\* Whoever is in loadProviders was let through for a load of its process.
Led ==
    /\ host \in [Loads -> Procs]
    /\ once \in [Procs -> {"new", "stat", "read", "fetch", "open", "put", "again", "done", "dead"}]
    /\ leader \in [Procs -> Loads \cup {NoLoad}]
    /\ asked \in [Loads -> {"no", "waiting", "ok", "error"}]
    /\ \A p \in Procs : once[p] \notin {"new", "done", "dead"} =>
          leader[p] \in Loads /\ host[leader[p]] = p

\* What the property says of one step.
Excused ==
    \A l \in Loads : LET p == host[l] IN
        asked'[l] = "error" /\ asked[l] # "error" =>
            cache \notin AnyList \/ ~existed[p] \/ once[p] \in {"open", "put"}

LEMMA Unasked == ASSUME Led, UNCHANGED <<host, once, leader, asked>> PROVE Led' /\ Excused
BY DEF Led, Excused

LEMMA GoesOn ==
    ASSUME Led, NEW p \in Procs, NEW from \in {"stat", "read", "fetch", "open"},
           NEW to \in {"read", "fetch", "open", "put", "again"}, Goes(p, from, to)
    PROVE  Led' /\ Excused
<1>1. /\ once[p] = from /\ once' = [once EXCEPT ![p] = to]
      /\ UNCHANGED <<host, leader, asked>>
  BY DEF Goes, At
<1> QED BY <1>1 DEF Led, Excused

LEMMA Returns ==
    ASSUME Led, NEW p \in Procs, NEW from \in {"read", "fetch", "put", "open", "again"}, NEW v,
           NEW answer \in {"ok", "error"}, Return(p, from, v, answer),
           answer = "error" => cache \notin AnyList \/ ~existed[p] \/ from \in {"open", "put"}
    PROVE  Led' /\ Excused
<1>1. /\ once[p] = from /\ once' = [once EXCEPT ![p] = "done"]
      /\ asked' = [asked EXCEPT ![leader[p]] = answer]
      /\ UNCHANGED <<host, leader>>
  BY DEF Return, At
<1>2. leader[p] \in Loads /\ host[leader[p]] = p
  BY <1>1 DEF Led
<1>3. Led'
  BY <1>1, <1>2 DEF Led
<1>4. \A l \in Loads : asked'[l] # asked[l] => l = leader[p]
  BY <1>1 DEF Led
<1>5. Excused
  BY <1>1, <1>2, <1>4 DEF Excused, Led
<1> QED BY <1>3, <1>5

LEMMA ProviderSteps == Led /\ ProviderStep => Led' /\ Excused
<1> SUFFICES ASSUME Led, ProviderStep PROVE Led' /\ Excused
  OBVIOUS
<1>1. ASSUME NEW l \in Loads, Follow(l) PROVE Led' /\ Excused
  BY <1>1 DEF Follow, Led, Excused
<1>2. ASSUME NEW p \in Procs, Stat(p) \/ ReadNothing(p) \/ Fetch(p) \/ Open(p) PROVE Led' /\ Excused
  BY <1>2, GoesOn DEF Stat, ReadNothing, Fetch, Open
<1>3. ASSUME NEW p \in Procs, ReadCache(p) \/ Put(p) PROVE Led' /\ Excused
  BY <1>3, Returns DEF ReadCache, Put
<1>4. ASSUME NEW p \in Procs, FetchFails(p) PROVE Led' /\ Excused
  BY <1>4, GoesOn, Returns DEF FetchFails
<1>5. ASSUME NEW p \in Procs, OpenFails(p) \/ PutFails(p) PROVE Led' /\ Excused
  BY <1>5, Returns DEF OpenFails, PutFails
<1>6. ASSUME NEW p \in Procs, ReadAgain(p) PROVE Led' /\ Excused
  BY <1>6, Returns DEF ReadAgain
<1>7. ASSUME NEW p \in Procs, \/ BgFetch(p) \/ BgFetchFails(p) \/ BgOpen(p)
                              \/ BgOpenFails(p) \/ BgPut(p) \/ BgPutFails(p)
      PROVE  Led' /\ Excused
  BY <1>7, Unasked DEF BgFetch, BgFetchFails, BgOpen, BgOpenFails, BgPut, BgPutFails, Bg, answers
<1>8. CASE Expire \/ Release
  BY <1>8, Unasked DEF Expire, Release, answers
<1> QED BY <1>1, <1>2, <1>3, <1>4, <1>5, <1>6, <1>7, <1>8 DEF ProviderStep

LEMMA AskAndDie ==
    ASSUME Led, (\E l \in Loads : Ask(l)) \/ \E p \in Procs : Die(p)
    PROVE  Led' /\ Excused
<1>1. ASSUME NEW l \in Loads, Ask(l) PROVE Led' /\ Excused
  <2>1. CASE once[host[l]] = "new"
    BY <1>1, <2>1 DEF Ask, Led, Excused
  <2>2. CASE once[host[l]] # "new"
    BY <1>1, <2>2 DEF Ask, Led, Excused
  <2> QED BY <2>1, <2>2
<1>2. ASSUME NEW p \in Procs, Die(p) PROVE Led' /\ Excused
  BY <1>2 DEF Die, Led, Excused
<1> QED BY <1>1, <1>2

\* A process is told that there are no providers only when the file was of no
\* use, or not there when it looked, or when the list could not be saved.
THEOREM FileIsEnough == Spec => StartsWithoutNetwork
<1>1. Init => Led
  BY CacheAssumption DEF Init, CacheInit, Led
<1>2. Led /\ [Next]_configVars => Led' /\ [Excused]_cacheVars
  <2> SUFFICES ASSUME Led, [Next]_configVars PROVE Led' /\ Excused
    OBVIOUS
  <2>1. CASE UNCHANGED configVars
    BY <2>1, Unasked DEF configVars, cacheVars, answers
  <2>2. ASSUME NEW l \in Loads, Start(l) PROVE Led' /\ Excused
    BY <2>2, AskAndDie DEF Start
  <2>3. ASSUME NEW p \in Procs, End(p) PROVE Led' /\ Excused
    BY <2>3, AskAndDie DEF End
  <2>4. CASE ProviderStep /\ UNCHANGED settings
    BY <2>4, ProviderSteps
  <2>5. ASSUME NEW l \in Loads,
               \/ StartFails(l) \/ Refuse(l) \/ Unconfigured(l) \/ Configure(l)
               \/ Get(l) \/ OpenData(l) \/ PutData(l)
               \/ \E from \in {"get", "open", "put"} : SetFails(l, from)
               \/ UpdatePreferredModel(l) \/ SetProviderAPIKey(l)
        PROVE  Led' /\ Excused
    <3>1. UNCHANGED cacheVars
      BY <2>5 DEF StartFails, Refuse, Unconfigured, Configure, Found, Get, OpenData, PutData, SetFails,
                  UpdatePreferredModel, SetProviderAPIKey, Change
    <3> QED BY <3>1, Unasked DEF cacheVars, answers
  <2> QED BY <2>1, <2>2, <2>3, <2>4, <2>5 DEF Next
<1> QED BY <1>1, <1>2, PTL DEF Spec, StartsWithoutNetwork, Excused

-----------------------------------------------------------------------------
(* The selected models.                                                    *)

\* A map of providers, as configureProviders and WithKey make them.
Providers(ps) ==
    /\ ps = [id \in DOMAIN ps |-> ps[id]]
    /\ \A id \in DOMAIN ps :
          ps[id] = [key |-> ps[id].key, url |-> ps[id].url, models |-> ps[id].models]

Shapes ==
    /\ step \in [Loads -> {"new", "asked", "failed", "ready", "get", "open", "put", "dead"}]
    /\ DOMAIN prov = Loads /\ prov = [l \in Loads |-> prov[l]]
    /\ \A l \in Loads : Providers(prov[l])
    /\ DOMAIN pick = Loads /\ pick = [l \in Loads |-> pick[l]]
    /\ \A l \in Loads : pick[l] = [t \in Types |-> pick[l][t]]
    /\ DOMAIN jobs = Loads /\ jobs = [l \in Loads |-> jobs[l]]
    /\ DOMAIN loading = Loads /\ loading = [l \in Loads |-> loading[l]]

\* A model that is selected and that the providers have.
There(ps, s)          == s # None /\ GetModel(ps, s)
AllThere(ps, selected) == \A t \in Types : There(ps, selected[t])

\* What a start stores: one model or two.
OnlyModels(js) ==
    \/ js = <<js[1]>> /\ js[1].path[1] = "models"
    \/ js = <<js[1], js[2]>> /\ js[1].path[1] = "models" /\ js[2].path[1] = "models"

\* Load runs until the start is ready; while it stores its fallbacks, what it
\* has selected is there.
Phase(to, ps, selected, js, runs) ==
    /\ to \in {"new", "asked"} => runs
    /\ to = "ready" => ~runs
    /\ runs /\ to \in {"get", "open", "put"} => AllThere(ps, selected) /\ OnlyModels(js)

Chosen == Shapes /\ \A l \in Loads : Phase(step[l], prov[l], pick[l], jobs[l], loading[l])

\* What the property says of one step of one start, and of all of them.
Keeps(ps, selected, runs, newps, new, still) ==
    /\ runs /\ ~still /\ newps # None => AllThere(newps, new)
    /\ \A t \in Types : ~runs /\ There(ps, selected[t]) /\ new[t] = selected[t] => There(newps, new[t])

Kept1(l) == Keeps(prov[l], pick[l], loading[l], prov'[l], pick'[l], loading'[l])
AllKept  == \A l \in Loads : Kept1(l)

\* A step of one start or change, which leaves it with these.
Leaves(l, to, ps, selected, js, runs) ==
    /\ to \in {"new", "asked", "failed", "ready", "get", "open", "put", "dead"}
    /\ Providers(ps) /\ selected = [t \in Types |-> selected[t]]
    /\ step' = [step EXCEPT ![l] = to]       /\ prov' = [prov EXCEPT ![l] = ps]
    /\ pick' = [pick EXCEPT ![l] = selected] /\ jobs' = [jobs EXCEPT ![l] = js]
    /\ loading' = [loading EXCEPT ![l] = runs]
    /\ Phase(to, ps, selected, js, runs)
    /\ Keeps(prov[l], pick[l], loading[l], ps, selected, runs)

LEMMA KeepsSame == ASSUME NEW ps, NEW selected, NEW runs PROVE Keeps(ps, selected, runs, ps, selected, runs)
BY DEF Keeps

LEMMA Moved ==
    ASSUME Chosen, NEW l \in Loads, NEW to, NEW ps, NEW selected, NEW js, NEW runs,
           Leaves(l, to, ps, selected, js, runs)
    PROVE  Chosen' /\ AllKept
<1>0. Shapes
  BY DEF Chosen
<1>1. /\ step'[l] = to /\ prov'[l] = ps /\ pick'[l] = selected /\ jobs'[l] = js /\ loading'[l] = runs
      /\ \A k \in Loads \ {l} : /\ step'[k] = step[k] /\ prov'[k] = prov[k]
                                /\ pick'[k] = pick[k] /\ jobs'[k] = jobs[k] /\ loading'[k] = loading[k]
  BY <1>0 DEF Shapes, Leaves
<1>2. Shapes'
  <2>1. step' \in [Loads -> {"new", "asked", "failed", "ready", "get", "open", "put", "dead"}]
    BY <1>0 DEF Shapes, Leaves
  <2>2. /\ DOMAIN prov' = Loads /\ prov' = [k \in Loads |-> prov'[k]]
        /\ DOMAIN pick' = Loads /\ pick' = [k \in Loads |-> pick'[k]]
        /\ DOMAIN jobs' = Loads /\ jobs' = [k \in Loads |-> jobs'[k]]
        /\ DOMAIN loading' = Loads /\ loading' = [k \in Loads |-> loading'[k]]
    BY <1>0 DEF Shapes, Leaves
  <2>3. \A k \in Loads : Providers(prov'[k])
    BY <1>0, <1>1 DEF Shapes, Leaves
  <2>4. ASSUME NEW k \in Loads PROVE pick'[k] = [t \in Types |-> pick'[k][t]]
    <3>1. CASE k = l
      BY <1>1, <3>1 DEF Leaves
    <3>2. CASE k # l
      BY <1>0, <1>1, <3>2 DEF Shapes
    <3> QED BY <3>1, <3>2
  <2> QED BY <2>1, <2>2, <2>3, <2>4 DEF Shapes
<1>3. ASSUME NEW k \in Loads PROVE Phase(step'[k], prov'[k], pick'[k], jobs'[k], loading'[k])
  BY <1>1 DEF Chosen, Leaves
<1>4. ASSUME NEW k \in Loads PROVE Kept1(k)
  BY <1>1, KeepsSame DEF Leaves, Kept1
<1> QED BY <1>2, <1>3, <1>4 DEF Chosen, AllKept

\* Nothing is put in the place of itself.
LEMMA Same ==
    ASSUME Shapes, NEW l \in Loads
    PROVE  /\ prov = [prov EXCEPT ![l] = prov[l]] /\ Providers(prov[l])
           /\ pick = [pick EXCEPT ![l] = pick[l]] /\ pick[l] = [t \in Types |-> pick[l][t]]
           /\ jobs = [jobs EXCEPT ![l] = jobs[l]]
           /\ loading = [loading EXCEPT ![l] = loading[l]]
BY DEF Shapes

LEMMA NoProviders == Providers(None) /\ DOMAIN None = {}
BY DEF Providers, None

-----------------------------------------------------------------------------
(* The choice itself.                                                      *)

LEMMA ModelMade ==
    ASSUME NEW id, NEW m
    PROVE  /\ DOMAIN Model(id, m) = {<<"provider">>, <<"model">>} /\ Model(id, m) # None
           /\ Model(id, m) = [x \in {<<"provider">>, <<"model">>} |-> Model(id, m)[x]]
           /\ Model(id, m)[<<"provider">>] = id /\ Model(id, m)[<<"model">>] = m
<1>1. <<"provider">> # <<"model">>
  OBVIOUS
<1>2. /\ DOMAIN Model(id, m) = {<<"provider">>, <<"model">>}
      /\ Model(id, m) = [x \in {<<"provider">>, <<"model">>} |-> Model(id, m)[x]]
      /\ Model(id, m)[<<"provider">>] = id /\ Model(id, m)[<<"model">>] = m
  BY <1>1 DEF Model
<1>3. DOMAIN Model(id, m) # DOMAIN None
  BY <1>2 DEF None
<1> QED BY <1>2, <1>3

LEMMA DefaultsAreModels ==
    ASSUME NEW ps, NEW known, NEW t \in Types
    PROVE  \E id, m : defaultModelSelection(ps, known)[t] = Model(id, m)
<1> DEFINE kept == SelectSeq(known, LAMBDA p : p.id \in DOMAIN ps)
           own  == SelectSeq(Alphabet, LAMBDA id : id \in DOMAIN ps)
<1>1. defaultModelSelection(ps, known) =
          IF kept # <<>>
          THEN [large |-> Model(kept[1].id, kept[1].large), small |-> Model(kept[1].id, kept[1].small)]
          ELSE [u \in Types |-> Model(own[1], ps[own[1]].models[1])]
  BY DEF defaultModelSelection
<1> HIDE DEF kept, own
<1>2. CASE kept # <<>>
  BY <1>1, <1>2 DEF Types
<1>3. CASE kept = <<>>
  BY <1>1, <1>3
<1> QED BY <1>2, <1>3

\* A model that is not configured at all is the default one.
LEMMA NothingWanted ==
    ASSUME NEW c, NEW t \in Types, Under(c, <<"models", t>>) = {}, NEW id, NEW m
    PROVE  Wanted(c, t, Model(id, m)) = Model(id, m)
<1> DEFINE default == Model(id, m)
<1>1. DOMAIN default = {<<"provider">>, <<"model">>} /\ default = [x \in DOMAIN default |-> default[x]]
  BY ModelMade
<1>2. \A x \in {<<"provider">>, <<"model">>} : IsPrefix(<<"models", t>>, <<"models", t>> \o x)
  <2>1. ASSUME NEW f \in {"provider", "model"} PROVE IsPrefix(<<"models", t>>, <<"models", t>> \o <<f>>)
    <3> DEFINE s == <<"models", t>>  u == <<f>>
    <3> DEFINE S == {"models", t, f}
    <3>1. s \in Seq(S) /\ u \in Seq(S) /\ Len(s) = 2 /\ Len(u) = 1
      OBVIOUS
    <3> HIDE DEF s, u, S
    <3>2. Len(s \o u) = 3
      <4>1. Len(s \o u) = Len(s) + Len(u)
        BY <3>1, ConcatProperties, Zenon
      <4> QED BY <3>1, <4>1
    <3>3. SubSeq(s \o u, 1, 2) = SubSeq(s, 1, 2)
      <4>1. 1 \in 1 .. Len(s) /\ 2 \in 1 .. Len(s)
        BY <3>1
      <4> QED BY <3>1, <4>1, SubSeqOfConcat1, Zenon
    <3>4. IsPrefix(s, s \o u)
      BY <3>1, <3>2, <3>3 DEF IsPrefix
    <3> QED BY <3>4 DEF s, u
  <2> QED BY <2>1
<1>3. \A x \in {<<"provider">>, <<"model">>} : Value(c, <<"models", t>> \o x, "") = ""
  BY <1>2 DEF Under, Value
<1> HIDE DEF default
<1>4. Wanted(c, t, default) = [x \in DOMAIN default |-> default[x]]
  BY <1>1, <1>3 DEF Wanted
<1> QED BY <1>1, <1>4 DEF default

LEMMA ConfiguredExist ==
    ASSUME NEW c, NEW ps, NEW known, DefaultsExist(ps, known)
    PROVE  AllThere(ps, configureSelectedModels(c, ps, defaultModelSelection(ps, known)))
<1> DEFINE defaults == defaultModelSelection(ps, known)
           selected == configureSelectedModels(c, ps, defaults)
<1>1. \A t \in Types : selected[t] = IF Falls(c, ps, t, defaults[t]) THEN defaults[t]
                                     ELSE Wanted(c, t, defaults[t])
  BY DEF configureSelectedModels
<1>2. \A t \in Types : GetModel(ps, defaults[t])
  BY DEF DefaultsExist
<1>3. ASSUME NEW t \in Types PROVE \E id, m : defaults[t] = Model(id, m)
  BY DefaultsAreModels
<1> HIDE DEF defaults, selected
<1>4. ASSUME NEW t \in Types PROVE GetModel(ps, selected[t]) /\ selected[t] # None
  <2>1. PICK id, m : defaults[t] = Model(id, m)
    BY <1>3
  <2>2. CASE Falls(c, ps, t, defaults[t])
    BY <1>1, <1>2, <2>1, <2>2, ModelMade
  <2>3. CASE Under(c, <<"models", t>>) = {}
    <3>1. selected[t] = Model(id, m)
      BY <1>1, <2>1, <2>3, NothingWanted DEF Falls
    <3> QED BY <1>2, <2>1, <3>1, ModelMade
  <2>4. CASE ~Falls(c, ps, t, defaults[t]) /\ Under(c, <<"models", t>>) # {}
    <3>1. selected[t] = Wanted(c, t, defaults[t]) /\ GetModel(ps, selected[t])
      BY <1>1, <2>4 DEF Falls
    <3> DEFINE default == Model(id, m)
    <3>2. <<"provider">> \in DOMAIN default
      BY ModelMade
    <3> HIDE DEF default
    <3>3. DOMAIN Wanted(c, t, default) = DOMAIN default
      BY DEF Wanted
    <3>4. DOMAIN selected[t] = DOMAIN default
      BY <2>1, <3>1, <3>3 DEF default
    <3> QED BY <3>1, <3>2, <3>4 DEF None
  <2> QED BY <2>2, <2>3, <2>4
<1>5. AllThere(ps, selected)
  BY <1>4 DEF AllThere, There
<1> QED BY <1>5 DEF defaults, selected

LEMMA ConfiguredProviders ==
    ASSUME NEW c, NEW known
    PROVE  Providers(configureProviders(c, known))
<1>1. \A p : Prepared(c, p) = [key |-> Prepared(c, p).key, url |-> Prepared(c, p).url,
                              models |-> Prepared(c, p).models]
  BY DEF Prepared
<1> DEFINE ps == configureProviders(c, known)
           ids == {p.id : p \in Kept(c, known)} \cup Custom(c, known)
           made(id) == IF id \in Named(known)
                       THEN Prepared(c, CHOOSE p \in ToSet(known) : p.id = id)
                       ELSE [key |-> Of(c, id, "api_key", ""), url |-> Of(c, id, "base_url", ""),
                             models |-> Of(c, id, "models", <<>>)]
<1>0. ps = [id \in ids |-> made(id)]
  BY DEF configureProviders
<1>2. DOMAIN ps = ids /\ ps = [id \in ids |-> ps[id]]
  <2> HIDE DEF ps, ids, made
  <2> QED BY <1>0
<1>3. ASSUME NEW id \in ids PROVE ps[id] = [key |-> ps[id].key, url |-> ps[id].url, models |-> ps[id].models]
  <2>1. CASE id \in Named(known)
    <3>1. ps[id] = Prepared(c, CHOOSE p \in ToSet(known) : p.id = id)
      BY <2>1 DEF configureProviders
    <3> QED BY <1>1, <3>1
  <2>2. CASE id \notin Named(known)
    <3>1. ps[id] = [key |-> Of(c, id, "api_key", ""), url |-> Of(c, id, "base_url", ""),
                    models |-> Of(c, id, "models", <<>>)]
      BY <2>2 DEF configureProviders
    <3> QED BY <3>1
  <2> QED BY <2>1, <2>2
<1> QED BY <1>2, <1>3 DEF Providers

\* A key changes no model.
LEMMA KeyOnly ==
    ASSUME Shapes, NEW l \in Loads, NEW id, NEW k
    PROVE  /\ Providers(WithKey(l, id, k))
           /\ prov[l] # None => WithKey(l, id, k) # None
           /\ \A i \in DOMAIN prov[l] : i \in DOMAIN WithKey(l, id, k) /\ WithKey(l, id, k)[i].models = prov[l][i].models
<1> DEFINE ps == prov[l]
<1>1. Providers(ps)
  BY DEF Shapes
<1>2. CASE id \in DOMAIN ps
  <2>1. WithKey(l, id, k) = [ps EXCEPT ![id].key = k]
    BY <1>2 DEF WithKey
  <2> HIDE DEF ps
  <2> DEFINE new == [ps EXCEPT ![id].key = k]
  <2>2. DOMAIN new = DOMAIN ps /\ new = [i \in DOMAIN new |-> new[i]]
    BY <1>1 DEF Providers
  <2>3. new[id] = [key |-> k, url |-> ps[id].url, models |-> ps[id].models]
    BY <1>1, <1>2 DEF Providers
  <2>4. \A i \in DOMAIN ps \ {id} : new[i] = ps[i]
    BY <1>1 DEF Providers
  <2> HIDE DEF new
  <2>5. \A i \in DOMAIN new : new[i] = [key |-> new[i].key, url |-> new[i].url, models |-> new[i].models]
    BY <1>1, <1>2, <2>2, <2>3, <2>4 DEF Providers
  <2>6. Providers(new)
    BY <2>2, <2>5 DEF Providers
  <2>7. new # None
    BY <1>2, <2>2 DEF None
  <2>8. \A i \in DOMAIN ps : i \in DOMAIN new /\ new[i].models = ps[i].models
    BY <1>2, <2>2, <2>3, <2>4
  <2> QED BY <2>1, <2>6, <2>7, <2>8 DEF new, ps
<1>3. CASE id \notin DOMAIN ps /\ id \in Named(KnownTo(l))
  <2> DEFINE p == CHOOSE q \in ToSet(KnownTo(l)) : q.id = id
             one == [key |-> k, url |-> p.url, models |-> p.models]
             new == [i \in DOMAIN ps \cup {id} |-> IF i = id THEN one ELSE ps[i]]
  <2>1. WithKey(l, id, k) = new
    BY <1>3 DEF WithKey
  <2> HIDE DEF ps, p
  <2>2. /\ DOMAIN new = {id} \cup DOMAIN ps
        /\ new = [i \in DOMAIN new |-> new[i]]
        /\ new[id] = one
        /\ \A i \in DOMAIN ps : i # id => new[i] = ps[i]
    OBVIOUS
  <2> HIDE DEF new
  <2>5. \A i \in DOMAIN new : new[i] = [key |-> new[i].key, url |-> new[i].url, models |-> new[i].models]
    BY <1>1, <1>3, <2>2 DEF Providers
  <2>6. Providers(new)
    BY <2>2, <2>5 DEF Providers
  <2>7. new # None
    BY <2>2 DEF None
  <2>8. \A i \in DOMAIN ps : i \in DOMAIN new /\ new[i].models = ps[i].models
    BY <1>3, <2>2
  <2> QED BY <2>1, <2>6, <2>7, <2>8 DEF ps
<1>4. CASE id \notin DOMAIN ps /\ id \notin Named(KnownTo(l))
  <2>1. WithKey(l, id, k) = ps
    BY <1>4 DEF WithKey
  <2> QED BY <1>1, <2>1
<1> QED BY <1>2, <1>3, <1>4

\* A model that is there stays, whatever key is entered.
LEMMA StillThere ==
    ASSUME NEW ps, NEW new, NEW selected,
           \A i \in DOMAIN ps : i \in DOMAIN new /\ new[i].models = ps[i].models
    PROVE  Keeps(ps, selected, FALSE, new, selected, FALSE)
BY DEF Keeps, There, GetModel

-----------------------------------------------------------------------------
(* What a start stores.                                                    *)

LEMMA Pairs ==
    ASSUME NEW a, NEW b
    PROVE  <<>> \o <<b>> = <<b>> /\ <<a>> \o <<>> = <<a>> /\ <<a>> \o <<b>> = <<a, b>>
<1> DEFINE S == {a, b}  s == <<a>>  t == <<b>>  u == <<a, b>>
<1>1. /\ s \in Seq(S) /\ Len(s) = 1 /\ s[1] = a
      /\ t \in Seq(S) /\ Len(t) = 1 /\ t[1] = b
      /\ u \in Seq(S) /\ Len(u) = 2 /\ u[1] = a /\ u[2] = b
  OBVIOUS
<1> HIDE DEF S, s, t, u
<1>2. <<>> \o t = t /\ s \o <<>> = s
  BY <1>1, ConcatEmptySeq, Zenon
<1>3. /\ s \o t \in Seq(S) /\ Len(s \o t) = Len(s) + Len(t)
      /\ \A i \in 1 .. Len(s) + Len(t) : (s \o t)[i] = IF i <= Len(s) THEN s[i] ELSE t[i - Len(s)]
  BY <1>1, ConcatProperties, Zenon
<1> DEFINE v == s \o t
<1>4. v \in Seq(S) /\ Len(v) = 2 /\ v[1] = a /\ v[2] = b
  BY <1>1, <1>3
<1> HIDE DEF v
<1>5. \A i \in 1 .. Len(v) : v[i] = u[i]
  BY <1>1, <1>4
<1>6. v = u
  BY <1>1, <1>4, <1>5, SeqEqual, Zenon
<1> QED BY <1>2, <1>6 DEF s, t, u, v

LEMMA RestOfStores ==
    ASSUME NEW js, OnlyModels(js)
    PROVE  /\ Tail(js) # <<>> => OnlyModels(Tail(js))
           /\ Head(js).path[1] = "models"
<1>1. CASE js = <<js[1]>> /\ js[1].path[1] = "models"
  <2> DEFINE a == js[1]
  <2>1. Tail(<<a>>) = <<>> /\ Head(<<a>>) = a
    OBVIOUS
  <2> HIDE DEF a
  <2>2. js = <<a>> /\ a.path[1] = "models"
    BY <1>1 DEF a
  <2> QED BY <2>1, <2>2
<1>2. CASE js = <<js[1], js[2]>> /\ js[1].path[1] = "models" /\ js[2].path[1] = "models"
  <2> DEFINE a == js[1]  b == js[2]
  <2>1. Tail(<<a, b>>) = <<b>> /\ Head(<<a, b>>) = a
    OBVIOUS
  <2> HIDE DEF a, b
  <2>2. js = <<a, b>> /\ a.path[1] = "models" /\ b.path[1] = "models"
    BY <1>2 DEF a, b
  <2>3. OnlyModels(<<b>>)
    BY <2>2 DEF OnlyModels
  <2> QED BY <2>1, <2>2, <2>3
<1> QED BY <1>1, <1>2 DEF OnlyModels

\* The fallbacks of a start, as Configure puts them together.
LEMMA FallbacksStored ==
    ASSUME NEW a, NEW b, a.path[1] = "models", b.path[1] = "models",
           NEW P \in BOOLEAN, NEW Q \in BOOLEAN
    PROVE  LET js == (IF P THEN <<a>> ELSE <<>>) \o (IF Q THEN <<b>> ELSE <<>>)
           IN  js # <<>> => OnlyModels(js)
<1>1. CASE P /\ Q
  BY <1>1, Pairs DEF OnlyModels
<1>2. CASE P /\ ~Q
  BY <1>2, Pairs DEF OnlyModels
<1>3. CASE ~P /\ Q
  BY <1>3, Pairs DEF OnlyModels
<1>4. CASE ~P /\ ~Q
  BY <1>4
<1> QED BY <1>1, <1>2, <1>3, <1>4

-----------------------------------------------------------------------------
(* The steps.                                                              *)

LEMMA Untouched ==
    ASSUME Chosen, UNCHANGED <<step, prov, pick, jobs, loading>> PROVE Chosen' /\ AllKept
<1>1. Chosen'
  BY DEF Chosen, Shapes
<1>2. AllKept
  BY KeepsSame DEF AllKept, Kept1
<1> QED BY <1>1, <1>2

LEMMA EarlySteps ==
    ASSUME Chosen, NEW l \in Loads, Start(l) \/ StartFails(l) \/ Refuse(l) \/ Unconfigured(l)
    PROVE  Chosen' /\ AllKept
<1>0. /\ Shapes /\ Providers(prov[l]) /\ pick[l] = [t \in Types |-> pick[l][t]]
      /\ Phase(step[l], prov[l], pick[l], jobs[l], loading[l])
  BY DEF Chosen, Shapes
<1>1. CASE Start(l)
  <2>1. /\ step' = [step EXCEPT ![l] = "asked"] /\ step[l] = "new"
        /\ UNCHANGED <<prov, pick, jobs, loading>>
    BY <1>1 DEF Start, Moves
  <2>2. Leaves(l, "asked", prov[l], pick[l], jobs[l], loading[l])
    BY <1>0, <2>1, Same, KeepsSame DEF Leaves, Phase
  <2> QED BY <2>2, Moved
<1>2. CASE StartFails(l)
  <2>1. step' = [step EXCEPT ![l] = "failed"] /\ UNCHANGED <<prov, pick, jobs, loading>>
    BY <1>2 DEF StartFails, Moves
  <2>2. Leaves(l, "failed", prov[l], pick[l], jobs[l], loading[l])
    BY <1>0, <2>1, Same, KeepsSame DEF Leaves, Phase
  <2> QED BY <2>2, Moved
<1>3. CASE Refuse(l)
  <2>1. /\ step' = [step EXCEPT ![l] = "failed"] /\ step[l] = "asked" /\ prov' = [prov EXCEPT ![l] = None]
        /\ UNCHANGED <<pick, jobs, loading>>
    BY <1>3 DEF Refuse, Moves, Found
  <2>2. Keeps(prov[l], pick[l], loading[l], None, pick[l], loading[l])
    BY <1>0, <2>1 DEF Phase, Keeps
  <2>3. Leaves(l, "failed", None, pick[l], jobs[l], loading[l])
    BY <1>0, <2>1, <2>2, Same, NoProviders DEF Leaves, Phase
  <2> QED BY <2>3, Moved
<1>4. CASE Unconfigured(l)
  <2> DEFINE selected == [t \in Types |-> Configured(config[l], t)]
  <2>1. /\ step' = [step EXCEPT ![l] = "ready"] /\ step[l] = "asked" /\ prov' = [prov EXCEPT ![l] = None]
        /\ pick' = [pick EXCEPT ![l] = selected] /\ loading' = [loading EXCEPT ![l] = FALSE]
        /\ UNCHANGED jobs
    BY <1>4 DEF Unconfigured, Moves, Found
  <2>2. selected = [t \in Types |-> selected[t]]
    OBVIOUS
  <2> HIDE DEF selected
  <2>3. Keeps(prov[l], pick[l], loading[l], None, selected, FALSE)
    BY <1>0, <2>1 DEF Phase, Keeps
  <2>4. Leaves(l, "ready", None, selected, jobs[l], FALSE)
    BY <1>0, <2>1, <2>2, <2>3, Same, NoProviders DEF Leaves, Phase
  <2> QED BY <2>4, Moved
<1> QED BY <1>1, <1>2, <1>3, <1>4

LEMMA ConfigureStep ==
    ASSUME Chosen, NEW l \in Loads, Configure(l)
    PROVE  Chosen' /\ AllKept
<1> DEFINE known    == KnownTo(l)
           ps       == configureProviders(config[l], known)
           defaults == defaultModelSelection(ps, known)
           fix(t)   == IF Falls(config[l], ps, t, defaults[t]) THEN <<SetModel(t, defaults[t])>> ELSE <<>>
           fixes    == fix("large") \o fix("small")
           selected == configureSelectedModels(config[l], ps, defaults)
           to       == IF fixes = <<>> THEN "ready" ELSE "get"
           runs     == fixes # <<>>
<1>0. Shapes /\ Phase(step[l], prov[l], pick[l], jobs[l], loading[l])
  BY DEF Chosen
<1>1. /\ ~Refused(l) /\ ps # None /\ step[l] = "asked"
      /\ step' = [step EXCEPT ![l] = to] /\ prov' = [prov EXCEPT ![l] = ps]
      /\ pick' = [pick EXCEPT ![l] = selected] /\ jobs' = [jobs EXCEPT ![l] = fixes]
      /\ loading' = [loading EXCEPT ![l] = runs]
  BY DEF Configure, Moves, Found
<1>2. DefaultsExist(ps, known)
  BY <1>1 DEF Refused
<1>3. AllThere(ps, selected)
  BY <1>2, ConfiguredExist
<1>4. Providers(ps)
  BY ConfiguredProviders
<1>5. selected = [t \in Types |-> selected[t]]
  BY DEF configureSelectedModels
<1>6. fixes # <<>> => OnlyModels(fixes)
  <2> DEFINE a == SetModel("large", defaults["large"])  P == Falls(config[l], ps, "large", defaults["large"])
             b == SetModel("small", defaults["small"])  Q == Falls(config[l], ps, "small", defaults["small"])
  <2>1. a.path[1] = "models" /\ b.path[1] = "models"
    BY DEF SetModel
  <2>2. P \in BOOLEAN /\ Q \in BOOLEAN
    BY DEF Falls
  <2>3. fixes = (IF P THEN <<a>> ELSE <<>>) \o (IF Q THEN <<b>> ELSE <<>>)
    OBVIOUS
  <2> HIDE DEF a, b, P, Q, fixes
  <2> QED BY <2>1, <2>2, <2>3, FallbacksStored
<1> HIDE DEF ps, selected, fixes
<1>7. to \in {"ready", "get"} /\ Phase(to, ps, selected, fixes, runs)
  BY <1>3, <1>6 DEF Phase
<1>8. Keeps(prov[l], pick[l], loading[l], ps, selected, runs)
  BY <1>0, <1>1, <1>3 DEF Phase, Keeps
<1> HIDE DEF to, runs
<1>9. Leaves(l, to, ps, selected, fixes, runs)
  BY <1>0, <1>1, <1>4, <1>5, <1>7, <1>8 DEF Leaves
<1> QED BY <1>9, Moved

LEMMA StoreSteps ==
    ASSUME Chosen, NEW l \in Loads,
           Get(l) \/ OpenData(l) \/ PutData(l) \/ \E from \in {"get", "open", "put"} : SetFails(l, from)
    PROVE  Chosen' /\ AllKept
<1>0. /\ Shapes /\ Providers(prov[l]) /\ pick[l] = [t \in Types |-> pick[l][t]]
      /\ Phase(step[l], prov[l], pick[l], jobs[l], loading[l])
  BY DEF Chosen, Shapes
<1>1. CASE Get(l)
  <2>1. /\ step' = [step EXCEPT ![l] = "open"] /\ step[l] = "get"
        /\ UNCHANGED <<prov, pick, jobs, loading>>
    BY <1>1 DEF Get, Moves
  <2>2. Leaves(l, "open", prov[l], pick[l], jobs[l], loading[l])
    BY <1>0, <2>1, Same, KeepsSame DEF Leaves, Phase
  <2> QED BY <2>2, Moved
<1>2. CASE OpenData(l)
  <2>1. /\ step' = [step EXCEPT ![l] = "put"] /\ step[l] = "open"
        /\ UNCHANGED <<prov, pick, jobs, loading>>
    BY <1>2 DEF OpenData, Moves
  <2>2. Leaves(l, "put", prov[l], pick[l], jobs[l], loading[l])
    BY <1>0, <2>1, Same, KeepsSame DEF Leaves, Phase
  <2> QED BY <2>2, Moved
<1>3. ASSUME NEW from \in {"get", "open", "put"}, SetFails(l, from) PROVE Chosen' /\ AllKept
  <2> DEFINE to == IF loading[l] THEN "failed" ELSE "ready"
  <2>1. /\ step' = [step EXCEPT ![l] = to] /\ step[l] = from
        /\ jobs' = [jobs EXCEPT ![l] = <<>>] /\ UNCHANGED <<prov, pick, loading>>
    BY <1>3 DEF SetFails, Moves
  <2>2. to \in {"failed", "ready"} /\ (to = "ready" => ~loading[l])
    OBVIOUS
  <2> HIDE DEF to
  <2>3. Leaves(l, to, prov[l], pick[l], <<>>, loading[l])
    BY <1>0, <2>1, <2>2, Same, KeepsSame DEF Leaves, Phase
  <2> QED BY <2>3, Moved
<1>4. CASE PutData(l)
  <2> DEFINE js   == jobs[l]
             rest == Tail(js)
             to   == IF rest # <<>> THEN "get" ELSE "ready"
             runs == loading[l] /\ rest # <<>>
             id   == Head(js).path[2]
             k    == Head(js).value[<<>>]
  <2>1. /\ step' = [step EXCEPT ![l] = to] /\ step[l] = "put"
        /\ jobs' = [jobs EXCEPT ![l] = rest] /\ UNCHANGED pick
        /\ loading' = [loading EXCEPT ![l] = runs]
        /\ prov' = IF Head(js).path[1] = "models" THEN prov ELSE [prov EXCEPT ![l] = WithKey(l, id, k)]
    BY <1>4, <1>0 DEF PutData, Moves, Shapes
  <2>2. loading[l] => /\ AllThere(prov[l], pick[l]) /\ Head(js).path[1] = "models"
                      /\ rest # <<>> => OnlyModels(rest)
    BY <1>0, <2>1, RestOfStores DEF Phase
  <2>3. to \in {"ready", "get"} /\ (to = "ready" => ~runs) /\ (runs => loading[l] /\ rest # <<>>)
    OBVIOUS
  <2>4. CASE Head(js).path[1] = "models"
    <3> HIDE DEF to, rest, runs
    <3>1. Keeps(prov[l], pick[l], loading[l], prov[l], pick[l], runs)
      BY <2>2 DEF Keeps
    <3>2. Phase(to, prov[l], pick[l], rest, runs)
      BY <2>2, <2>3 DEF Phase
    <3>3. Leaves(l, to, prov[l], pick[l], rest, runs)
      BY <1>0, <2>1, <2>3, <2>4, <3>1, <3>2, Same DEF Leaves
    <3> QED BY <3>3, Moved
  <2>5. CASE Head(js).path[1] # "models"
    <3> DEFINE new == WithKey(l, id, k)
    <3>1. prov' = [prov EXCEPT ![l] = new]
      BY <2>1, <2>5
    <3>2. /\ Providers(new)
          /\ \A i \in DOMAIN prov[l] : i \in DOMAIN new /\ new[i].models = prov[l][i].models
      BY <1>0, KeyOnly
    <3>3. ~loading[l] /\ ~runs
      BY <2>2, <2>5
    <3> HIDE DEF new, to, rest, id, k, runs
    <3>4. Keeps(prov[l], pick[l], loading[l], new, pick[l], runs)
      BY <3>2, <3>3, StillThere DEF Keeps
    <3>5. Phase(to, new, pick[l], rest, runs)
      BY <2>3, <3>3 DEF Phase
    <3>6. Leaves(l, to, new, pick[l], rest, runs)
      BY <1>0, <2>1, <2>3, <3>1, <3>2, <3>4, <3>5, Same DEF Leaves
    <3> QED BY <3>6, Moved
  <2> QED BY <2>4, <2>5
<1> QED BY <1>1, <1>2, <1>3, <1>4

LEMMA ChangeSteps ==
    ASSUME Chosen, NEW l \in Loads, UpdatePreferredModel(l) \/ SetProviderAPIKey(l)
    PROVE  Chosen' /\ AllKept
<1>0. /\ Shapes /\ Providers(prov[l]) /\ pick[l] = [t \in Types |-> pick[l][t]]
      /\ Phase(step[l], prov[l], pick[l], jobs[l], loading[l])
  BY DEF Chosen, Shapes
<1>1. ASSUME NEW job, NEW selected, Change(l, job), pick' = [pick EXCEPT ![l] = selected],
             selected = [t \in Types |-> selected[t]]
      PROVE  Chosen' /\ AllKept
  <2> DEFINE js == <<job>>
  <2>1. /\ step' = [step EXCEPT ![l] = "get"] /\ step[l] = "ready"
        /\ jobs' = [jobs EXCEPT ![l] = js] /\ UNCHANGED <<prov, loading>>
    BY <1>1 DEF Change, Moves
  <2>2. ~loading[l]
    BY <1>0, <2>1 DEF Phase
  <2> HIDE DEF js
  <2>3. Keeps(prov[l], pick[l], loading[l], prov[l], selected, loading[l])
    BY <2>2 DEF Keeps
  <2>4. Leaves(l, "get", prov[l], selected, js, loading[l])
    BY <1>0, <1>1, <2>1, <2>2, <2>3, Same DEF Leaves, Phase
  <2> QED BY <2>4, Moved
<1>2. CASE UpdatePreferredModel(l)
  <2>1. PICK t \in Types, chosen \in Preferences :
          /\ pick' = [pick EXCEPT ![l][t] = Model(chosen[1], chosen[2])]
          /\ Change(l, SetModel(t, Model(chosen[1], chosen[2])))
    BY <1>2 DEF UpdatePreferredModel
  <2> DEFINE new      == Model(chosen[1], chosen[2])
             selected == [pick[l] EXCEPT ![t] = new]
             job      == SetModel(t, new)
  <2>2. Change(l, job) /\ pick' = [pick EXCEPT ![l] = selected]
    BY <2>1
  <2> HIDE DEF new, job
  <2>3. selected = [u \in Types |-> selected[u]]
    BY <1>0
  <2> HIDE DEF selected
  <2> QED BY <1>1, <2>2, <2>3
<1>3. CASE SetProviderAPIKey(l)
  <2>1. PICK id \in Entered, k \in Keys : Change(l, SetKey(id, k)) /\ UNCHANGED pick
    BY <1>3 DEF SetProviderAPIKey
  <2> DEFINE job == SetKey(id, k)  selected == pick[l]
  <2>2. Change(l, job)
    BY <2>1
  <2> HIDE DEF job
  <2>3. pick' = [pick EXCEPT ![l] = selected] /\ selected = [t \in Types |-> selected[t]]
    BY <1>0, <2>1, Same
  <2> HIDE DEF selected
  <2> QED BY <1>1, <2>2, <2>3
<1> QED BY <1>2, <1>3

LEMMA EndStep == ASSUME Chosen, NEW p \in Procs, End(p) PROVE Chosen' /\ AllKept
<1> DEFINE its == {l \in Loads : host[l] = p}
<1>1. /\ step' = [l \in Loads |-> IF l \in its THEN "dead" ELSE step[l]]
      /\ jobs' = [l \in Loads |-> IF l \in its THEN <<>> ELSE jobs[l]]
      /\ UNCHANGED <<prov, pick, loading>>
  BY DEF End
<1> HIDE DEF its
<1>2. Shapes'
  BY <1>1 DEF Chosen, Shapes
<1>3. \A l \in Loads : l \notin its => step'[l] = step[l] /\ jobs'[l] = jobs[l]
  BY <1>1
<1>4. \A l \in Loads : l \in its => step'[l] = "dead"
  BY <1>1
<1>5. ASSUME NEW l \in Loads PROVE Phase(step'[l], prov'[l], pick'[l], jobs'[l], loading'[l])
  <2>1. CASE l \in its
    BY <1>4, <2>1 DEF Phase
  <2>2. CASE l \notin its
    BY <1>1, <1>3, <2>2 DEF Chosen
  <2> QED BY <2>1, <2>2
<1>6. AllKept
  BY <1>1, KeepsSame DEF AllKept, Kept1
<1> QED BY <1>2, <1>5, <1>6 DEF Chosen

LEMMA InitChosen == Init => Chosen
<1> SUFFICES ASSUME Init PROVE Chosen
  OBVIOUS
<1>1. /\ step = [l \in Loads |-> "new"] /\ prov = [l \in Loads |-> None] /\ jobs = [l \in Loads |-> <<>>]
      /\ pick = [l \in Loads |-> [t \in Types |-> None]] /\ loading = [l \in Loads |-> TRUE]
  BY DEF Init
<1>2. \A l \in Loads : /\ prov[l] = None /\ step[l] = "new" /\ loading[l]
                       /\ pick[l] = [t \in Types |-> None]
  BY <1>1
<1>3. Shapes
  BY <1>1, <1>2, NoProviders DEF Shapes
<1>4. \A l \in Loads : Phase(step[l], prov[l], pick[l], jobs[l], loading[l])
  BY <1>2 DEF Phase
<1> QED BY <1>3, <1>4 DEF Chosen

\* Every step keeps the invariant and what is selected.
LEMMA ChosenStays == ASSUME Chosen, [Next]_configVars PROVE Chosen' /\ AllKept
<1>1. CASE UNCHANGED configVars
  BY <1>1, Untouched DEF configVars, settings
<1>2. ASSUME NEW l \in Loads, Start(l) \/ StartFails(l) \/ Refuse(l) \/ Unconfigured(l)
      PROVE  Chosen' /\ AllKept
  BY <1>2, EarlySteps
<1>3. ASSUME NEW l \in Loads, Configure(l) PROVE Chosen' /\ AllKept
  BY <1>3, ConfigureStep
<1>4. ASSUME NEW l \in Loads,
             Get(l) \/ OpenData(l) \/ PutData(l) \/ \E from \in {"get", "open", "put"} : SetFails(l, from)
      PROVE  Chosen' /\ AllKept
  BY <1>4, StoreSteps
<1>5. ASSUME NEW l \in Loads, UpdatePreferredModel(l) \/ SetProviderAPIKey(l) PROVE Chosen' /\ AllKept
  BY <1>5, ChangeSteps
<1>6. ASSUME NEW p \in Procs, End(p) PROVE Chosen' /\ AllKept
  BY <1>6, EndStep
<1>7. CASE ProviderStep /\ UNCHANGED settings
  BY <1>7, Untouched DEF settings
<1> QED BY <1>1, <1>2, <1>3, <1>4, <1>5, <1>6, <1>7 DEF Next

LEMMA AlwaysChosen == Spec => []Chosen
BY InitChosen, ChosenStays, PTL DEF Spec

\* Whatever the files say, a start that finds a provider ends with models its
\* providers have, and none that is there is taken away but by the user's own
\* choice.
THEOREM SelectionsExist == Spec => SelectedModelsExist
<1> DEFINE Step == \A l \in Loads :
                     /\ loading[l] /\ ~loading'[l] /\ prov'[l] # None => \A t \in Types : HasModel(l, t)'
                     /\ \A t \in Types :
                           ~loading[l] /\ HasModel(l, t) /\ pick'[l][t] = pick[l][t] => HasModel(l, t)'
<1>1. Chosen /\ [Next]_configVars => Step
  <2> SUFFICES ASSUME Chosen, [Next]_configVars, NEW l \in Loads
               PROVE  /\ loading[l] /\ ~loading'[l] /\ prov'[l] # None => \A t \in Types : HasModel(l, t)'
                      /\ \A t \in Types :
                            ~loading[l] /\ HasModel(l, t) /\ pick'[l][t] = pick[l][t] => HasModel(l, t)'
    OBVIOUS
  <2>1. Kept1(l)
    BY ChosenStays DEF AllKept
  <2> QED BY <2>1 DEF Kept1, Keeps, AllThere, There, HasModel, None, GetModel
<1> QED BY <1>1, AlwaysChosen, PTL DEF Spec, SelectedModelsExist

-----------------------------------------------------------------------------
(* What is stored.                                                         *)

\* A mark of a file is no text with a field.
MarksAreNoTexts == \A c, path, v : SetAt(c, path, v) \notin {NoFile, Bare, Torn}

\* A field of the data file that is stored: a model or a key.
Field(path, v) ==
    \/ \E t \in Types : \E id, m : path = <<"models", t>> /\ v = Model(id, m)
    \/ \E id, k : path = <<"providers", id, "api_key">> /\ v = [y \in {<<>>} |-> k]

\* The paths begin with one another only when they are the same.
LEMMA PathPrefix ==
    ASSUME NEW S, NEW p \in Seq(S), NEW s \in Seq(S), NEW u \in Seq(S),
           s # <<>>
    PROVE  /\ IsPrefix(s, s \o u) /\ SubSeq(s \o u, Len(s) + 1, Len(s \o u)) = u
           /\ IsPrefix(p, s \o u) /\ Len(p) = Len(s) => p = s
           /\ IsPrefix(p, s \o u) /\ p # <<>> => p[1] = s[1]
<1>1. /\ Len(s) \in Nat /\ Len(u) \in Nat /\ Len(p) \in Nat /\ Len(s) # 0
      /\ 1 \in 1..Len(s) /\ Len(s) \in 1..Len(s)
  <2>1. Len(s) \in Nat /\ Len(u) \in Nat /\ Len(p) \in Nat
    OBVIOUS
  <2>2. Len(s) # 0
    BY EmptySeq
  <2> QED BY <2>1, <2>2
<1>2. s \o u \in Seq(S) /\ Len(s \o u) = Len(s) + Len(u)
  BY ConcatProperties
<1>3. SubSeq(s \o u, 1, Len(s)) = s
  <2>1. SubSeq(s \o u, 1, Len(s)) = SubSeq(s, 1, Len(s))
    BY <1>1, SubSeqOfConcat1
  <2> QED BY <2>1, SubSeqFull
<1>4. IsPrefix(s, s \o u)
  BY <1>1, <1>2, <1>3, SubSeqFull DEF IsPrefix
<1>5. SubSeq(s \o u, Len(s) + 1, Len(s \o u)) = u
  <2>1. CASE u = <<>>
    BY <1>1, <1>2, <2>1, SubSeqEmpty
  <2>2. CASE u # <<>>
    <3>1. Len(u) # 0
      BY <2>2, EmptySeq
    <3>2. Len(s) + 1 \in Len(s) + 1 .. Len(s) + Len(u) /\ Len(s) + Len(u) \in Len(s) + 1 .. Len(s) + Len(u)
      BY <1>1, <3>1
    <3>3. SubSeq(s \o u, Len(s) + 1, Len(s) + Len(u)) = SubSeq(u, Len(s) + 1 - Len(s), Len(s) + Len(u) - Len(s))
      BY <3>2, SubSeqOfConcat2
    <3>4. Len(s) + 1 - Len(s) = 1 /\ Len(s) + Len(u) - Len(s) = Len(u)
      BY <1>1
    <3> QED BY <1>2, <3>3, <3>4, SubSeqFull
  <2> QED BY <2>1, <2>2
<1>6. ASSUME IsPrefix(p, s \o u) PROVE SubSeq(s \o u, 1, Len(p)) = p /\ Len(p) <= Len(s \o u)
  BY <1>6, SubSeqFull DEF IsPrefix
<1>7. ASSUME IsPrefix(p, s \o u), Len(p) = Len(s) PROVE p = s
  BY <1>3, <1>6, <1>7
<1>8. ASSUME IsPrefix(p, s \o u), p # <<>> PROVE p[1] = s[1]
  <2> DEFINE w == s \o u
  <2>1. Len(p) # 0 /\ Len(p) <= Len(w) /\ SubSeq(w, 1, Len(p)) = p
    BY <1>6, <1>8, EmptySeq
  <2>2. w \in Seq(S) /\ Len(w) \in Nat
    BY <1>1, <1>2
  <2>3. w[1] = s[1]
    BY <1>1, ConcatProperties
  <2> HIDE DEF w
  <2>4. SubSeq(w, 1, Len(p))[1] = w[1]
    <3>1. 1 \in Int /\ Len(p) \in Int /\ 1 <= Len(p) /\ \A k \in 1..Len(p) : w[k] \in S
      BY <1>1, <2>1, <2>2, ElementOfSeq
    <3>2. \A k \in 1..(Len(p) - 1 + 1) : SubSeq(w, 1, Len(p))[k] = w[1 + k - 1]
      BY <3>1, SubSeqProperties
    <3>3. 1 \in 1..(Len(p) - 1 + 1) /\ 1 + 1 - 1 = 1
      BY <1>1, <2>1
    <3> QED BY <3>2, <3>3
  <2> QED BY <2>1, <2>3, <2>4
<1> QED BY <1>4, <1>5, <1>7, <1>8

LEMMA FieldsApart ==
    ASSUME NEW p, NEW v, Field(p, v), NEW q, NEW w, Field(q, w)
    PROVE  /\ \A y \in DOMAIN w : IsPrefix(q, q \o y) /\ SubSeq(q \o y, Len(q) + 1, Len(q \o y)) = y
           /\ \A y \in DOMAIN w : IsPrefix(p, q \o y) => p = q
           /\ \A y \in DOMAIN w : Last(q \o y) # "models"
<1> SUFFICES ASSUME NEW y \in DOMAIN w
             PROVE  /\ IsPrefix(q, q \o y) /\ SubSeq(q \o y, Len(q) + 1, Len(q \o y)) = y
                    /\ IsPrefix(p, q \o y) => p = q
                    /\ Last(q \o y) # "models"
  OBVIOUS
<1>1. PICK a, b : p = <<"models", a>> \/ p = <<"providers", b, "api_key">>
  BY DEF Field
<1>2. PICK c, d : (q = <<"models", c>> /\ y \in {<<"provider">>, <<"model">>}) \/ (q = <<"providers", d, "api_key">> /\ y = <<>>)
  BY ModelMade DEF Field
<1> DEFINE S == {"models", "providers", "api_key", "provider", "model", a, b, c, d}
<1>3. p \in Seq(S) /\ q \in Seq(S) /\ y \in Seq(S) /\ q # <<>> /\ p # <<>>
  <2>1. <<"models", a>> \in Seq(S) /\ <<"providers", b, "api_key">> \in Seq(S)
        /\ <<"models", c>> \in Seq(S) /\ <<"providers", d, "api_key">> \in Seq(S)
        /\ <<"provider">> \in Seq(S) /\ <<"model">> \in Seq(S) /\ <<>> \in Seq(S)
    OBVIOUS
  <2>2. p # <<>> /\ q # <<>>
    BY <1>1, <1>2
  <2> HIDE DEF S
  <2> QED BY <1>1, <1>2, <2>1, <2>2
<1> HIDE DEF S
<1>4. /\ IsPrefix(q, q \o y) /\ SubSeq(q \o y, Len(q) + 1, Len(q \o y)) = y
      /\ IsPrefix(p, q \o y) /\ Len(p) = Len(q) => p = q
      /\ IsPrefix(p, q \o y) => p[1] = q[1]
  <2>1. p \in Seq(S) /\ q \in Seq(S) /\ y \in Seq(S) /\ q # <<>>
    BY <1>3
  <2>2. /\ IsPrefix(q, q \o y) /\ SubSeq(q \o y, Len(q) + 1, Len(q \o y)) = y
        /\ IsPrefix(p, q \o y) /\ Len(p) = Len(q) => p = q
        /\ IsPrefix(p, q \o y) /\ p # <<>> => p[1] = q[1]
    BY <2>1, PathPrefix
  <2> QED BY <1>3, <2>2
<1>5. p[1] = q[1] => Len(p) = Len(q)
  BY <1>1, <1>2
<1>6. Last(q \o y) # "models"
  <2>1. CASE q = <<"models", c>> /\ y \in {<<"provider">>, <<"model">>}
    <3>1. Len(q) = 2 /\ Len(y) = 1 /\ y[1] # "models"
      BY <2>1
    <3>2. Len(q \o y) = 3 /\ (q \o y)[3] = y[1]
      <4>1. /\ Len(q \o y) = Len(q) + Len(y)
            /\ \A i \in 1 .. Len(q) + Len(y) : (q \o y)[i] = IF i <= Len(q) THEN q[i] ELSE y[i - Len(q)]
        BY <1>3, ConcatProperties
      <4> QED BY <3>1, <4>1
    <3> QED BY <3>1, <3>2 DEF Last
  <2>2. CASE q = <<"providers", d, "api_key">> /\ y = <<>>
    <3>1. q \o y = q
      BY <1>3, <2>2, ConcatEmptySeq
    <3>2. Last(<<"providers", d, "api_key">>) = "api_key"
      BY DEF Last
    <3> QED BY <2>2, <3>1, <3>2
  <2> QED BY <1>2, <2>1, <2>2
<1> QED BY <1>4, <1>5, <1>6

\* The text has the field.
Has(c, path, v) == \A y \in DOMAIN v : path \o y \in DOMAIN c /\ c[path \o y] = v[y]

\* Every field that is stored is in the text.
Fields(sv)    == \A x \in DOMAIN sv : Field(x, sv[x])
Stored(c, sv) == \A x \in DOMAIN sv : Has(c, x, sv[x])

\* A field that is set is there, and the others stay.
LEMMA SetOne ==
    ASSUME NEW c, NEW sv, Fields(sv), Stored(c, sv), NEW p, NEW v, Field(p, v),
           NEW new, new = [x \in {p} \cup DOMAIN sv |-> IF x = p THEN v ELSE sv[x]]
    PROVE  Fields(new) /\ Stored(SetAt(c, p, v), new)
<1> DEFINE d == SetAt(c, p, v)
<1>0. /\ DOMAIN d = (DOMAIN c \ Under(c, p)) \cup {p \o y : y \in DOMAIN v}
      /\ \A z \in DOMAIN d : d[z] = IF IsPrefix(p, z) THEN v[SubSeq(z, Len(p) + 1, Len(z))] ELSE c[z]
  BY DEF SetAt
<1> HIDE DEF d
<1>1. DOMAIN new = {p} \cup DOMAIN sv /\ \A x \in DOMAIN new : new[x] = IF x = p THEN v ELSE sv[x]
  OBVIOUS
<1>2. Fields(new)
  BY <1>1 DEF Fields
<1>3. Has(d, p, v)
  <2> SUFFICES ASSUME NEW y \in DOMAIN v PROVE p \o y \in DOMAIN d /\ d[p \o y] = v[y]
    BY DEF Has
  <2>1. IsPrefix(p, p \o y) /\ SubSeq(p \o y, Len(p) + 1, Len(p \o y)) = y
    BY FieldsApart
  <2> QED BY <1>0, <2>1
<1>4. ASSUME NEW x \in DOMAIN sv, x # p PROVE Has(d, x, sv[x])
  <2> SUFFICES ASSUME NEW y \in DOMAIN sv[x] PROVE x \o y \in DOMAIN d /\ d[x \o y] = sv[x][y]
    BY DEF Has
  <2>1. Field(x, sv[x])
    BY DEF Fields
  <2>2. ~IsPrefix(p, x \o y)
    BY <1>4, <2>1, FieldsApart
  <2>3. x \o y \in DOMAIN c /\ c[x \o y] = sv[x][y]
    BY DEF Stored, Has
  <2> QED BY <1>0, <2>2, <2>3 DEF Under
<1>5. Stored(d, new)
  BY <1>1, <1>3, <1>4 DEF Stored
<1> QED BY <1>2, <1>5 DEF d

\* Where the project says nothing, a start reads what is stored.
LEMMA MergedHas ==
    ASSUME NEW c, NEW g, NEW own, NEW x, NEW v, Field(x, v), Has(c, x, v), Under(own, x) = {}
    PROVE  Has(Overlay(Overlay(g, c), own), x, v)
<1> SUFFICES ASSUME NEW y \in DOMAIN v
             PROVE  /\ x \o y \in DOMAIN Overlay(Overlay(g, c), own)
                    /\ Overlay(Overlay(g, c), own)[x \o y] = v[y]
  BY DEF Has
<1> DEFINE z == x \o y
<1>1. IsPrefix(x, z) /\ Last(z) # "models"
  BY FieldsApart
<1>2. z \in DOMAIN c /\ c[z] = v[y]
  BY DEF Has
<1>3. z \notin DOMAIN own
  BY <1>1 DEF Under
<1> HIDE DEF z
<1> DEFINE m == Overlay(g, c)
<1>4. z \in DOMAIN m /\ m[z] = c[z]
  BY <1>1, <1>2 DEF Overlay
<1> HIDE DEF m
<1>5. z \in DOMAIN Overlay(m, own) /\ Overlay(m, own)[z] = m[z]
  BY <1>3, <1>4 DEF Overlay
<1> QED BY <1>2, <1>4, <1>5 DEF m, z

-----------------------------------------------------------------------------
(* A start uses what it has read.                                          *)

\* No name is empty.
AllNamed(v) == \A y \in DOMAIN v : v[y] # ""

\* A stored model that the providers have is selected.
LEMMA ModelUsed ==
    ASSUME NEW c, NEW ps, NEW known, NEW t \in Types, NEW id, NEW m,
           Has(c, <<"models", t>>, Model(id, m)), GetModel(ps, Model(id, m)), AllNamed(Model(id, m))
    PROVE  configureSelectedModels(c, ps, defaultModelSelection(ps, known))[t] = Model(id, m)
<1> DEFINE defaults == defaultModelSelection(ps, known)
           x == <<"models", t>>  v == Model(id, m)
<1>1. PICK i, n : defaults[t] = Model(i, n)
  BY DefaultsAreModels
<1> DEFINE default == Model(i, n)
<1>2. DOMAIN default = DOMAIN v /\ v = [y \in DOMAIN v |-> v[y]]
  BY ModelMade
<1>3. \A y \in DOMAIN v : x \o y \in DOMAIN c /\ c[x \o y] = v[y] /\ v[y] # ""
  BY DEF Has, AllNamed
<1>4. GetModel(ps, v)
  OBVIOUS
<1> HIDE DEF default, v
<1>5. Wanted(c, t, default) = [y \in DOMAIN default |-> IF Value(c, x \o y, "") = "" THEN default[y] ELSE c[x \o y]]
  BY DEF Wanted
<1>6. \A y \in DOMAIN v : Value(c, x \o y, "") = v[y]
  BY <1>3 DEF Value
<1> HIDE DEF x
<1>7. Wanted(c, t, default) = [y \in DOMAIN v |-> v[y]]
  BY <1>2, <1>3, <1>5, <1>6
<1>8. Wanted(c, t, default) = v
  BY <1>2, <1>7
<1>9. ~Falls(c, ps, t, default)
  BY <1>4, <1>8 DEF Falls
<1>10. defaults[t] = default
  BY <1>1 DEF default
<1> HIDE DEF defaults
<1>11. configureSelectedModels(c, ps, defaults)[t] = v
  BY <1>8, <1>9, <1>10 DEF configureSelectedModels
<1> QED BY <1>11 DEF defaults, v

LEMMA KeyPath ==
    ASSUME NEW id
    PROVE  <<"providers", id, "api_key">> \o <<>> = <<"providers", id, "api_key">>
<1> DEFINE x == <<"providers", id, "api_key">>  S == {"providers", id, "api_key"}
<1>1. x \in Seq(S)
  OBVIOUS
<1> HIDE DEF x, S
<1>2. x \o <<>> = x
  BY <1>1, ConcatEmptySeq
<1> QED BY <1>2 DEF x

\* A stored key that is not empty is the key of its provider.
LEMMA KeyUsed ==
    ASSUME NEW c, NEW known, NEW id, NEW k, k # "",
           Has(c, <<"providers", id, "api_key">>, [y \in {<<>>} |-> k]),
           id \in DOMAIN configureProviders(c, known)
    PROVE  configureProviders(c, known)[id].key = k
<1> DEFINE x == <<"providers", id, "api_key">>
<1>1. x \o <<>> \in DOMAIN c /\ c[x \o <<>>] = k
  BY DEF Has
<1>2. x \o <<>> = x
  BY KeyPath
<1>3. x \in DOMAIN c /\ c[x] = k
  BY <1>1, <1>2
<1>4. \A d : Of(c, id, "api_key", d) = k /\ Given(c, id, "api_key", d) = k
  BY <1>3 DEF Of, Value, Given
<1> DEFINE ids == {p.id : p \in Kept(c, known)} \cup Custom(c, known)
           made(i) == IF i \in Named(known)
                      THEN Prepared(c, CHOOSE p \in ToSet(known) : p.id = i)
                      ELSE [key |-> Of(c, i, "api_key", ""), url |-> Of(c, i, "base_url", ""),
                            models |-> Of(c, i, "models", <<>>)]
<1>5. configureProviders(c, known) = [i \in ids |-> made(i)]
  BY DEF configureProviders
<1>6. made(id).key = k
  <2>1. CASE id \in Named(known)
    <3> DEFINE p == CHOOSE p \in ToSet(known) : p.id = id
    <3>1. p.id = id
      BY <2>1 DEF Named
    <3>2. made(id) = Prepared(c, p)
      BY <2>1
    <3> HIDE DEF p
    <3>3. Prepared(c, p).key = Given(c, p.id, "api_key", p.key)
      BY DEF Prepared
    <3> QED BY <1>4, <3>1, <3>2, <3>3
  <2>2. CASE id \notin Named(known)
    <3>1. made(id).key = Of(c, id, "api_key", "")
      BY <2>2
    <3> HIDE DEF made
    <3> QED BY <1>4, <3>1
  <2> QED BY <2>1, <2>2
<1> HIDE DEF ids, made
<1> QED BY <1>5, <1>6

-----------------------------------------------------------------------------
(* The invariant.                                                          *)

\* What it sets are fields, one or two of them.
IsJob(job)  == Field(job.path, job.value)
AreJobs(js) == (js = <<js[1]>> /\ IsJob(js[1])) \/ (js = <<js[1], js[2]>> /\ IsJob(js[1]) /\ IsJob(js[2]))

Reads(l) ==
    \A x \in DOMAIN before[l] : Under(site.project, x) = {} => Has(config[l], x, before[l][x])

\* As long as nobody was hurt, whoever writes is alone and has read, or the file
\* has, all that was stored.
Unhurt ==
    /\ \A k, l \in Loads : Writes(k) /\ Writes(l) => k = l
    /\ \A l \in Loads : Writes(l) /\ text[l] # Torn => Stored(Text(text[l]), saved)
    /\ \A l \in Loads : step[l] = "put" => data = Bare
    /\ (\A l \in Loads : step[l] # "put") /\ data # Torn => Stored(Text(data), saved)
    /\ \A l \in Loads : step[l] = "asked" => Reads(l)

Storage ==
    /\ DOMAIN config = Loads /\ DOMAIN text = Loads /\ DOMAIN before = Loads
    /\ Fields(saved)
    /\ \A l \in Loads : Fields(before[l])
    /\ \A l \in Loads : step[l] \in {"get", "open", "put"} => AreJobs(jobs[l])
    /\ \A l \in Loads : step[l] \in {"new", "asked"} => prov[l] = None

LEMMA NextJob ==
    ASSUME NEW js, AreJobs(js)
    PROVE  IsJob(Head(js)) /\ (Tail(js) # <<>> => AreJobs(Tail(js)))
<1>1. CASE js = <<js[1]>> /\ IsJob(js[1])
  <2> DEFINE a == js[1]
  <2>1. Tail(<<a>>) = <<>> /\ Head(<<a>>) = a
    OBVIOUS
  <2> HIDE DEF a
  <2>2. js = <<a>> /\ IsJob(a)
    BY <1>1 DEF a
  <2> QED BY <2>1, <2>2
<1>2. CASE js = <<js[1], js[2]>> /\ IsJob(js[1]) /\ IsJob(js[2])
  <2> DEFINE a == js[1]  b == js[2]
  <2>1. Tail(<<a, b>>) = <<b>> /\ Head(<<a, b>>) = a /\ <<b>>[1] = b
    OBVIOUS
  <2> HIDE DEF a, b
  <2>2. js = <<a, b>> /\ IsJob(a) /\ IsJob(b)
    BY <1>2 DEF a, b
  <2>3. AreJobs(<<b>>)
    BY <2>1, <2>2 DEF AreJobs
  <2> QED BY <2>1, <2>2, <2>3
<1> QED BY <1>1, <1>2 DEF AreJobs

\* The fallbacks of a start are fields.
LEMMA FallbackJobs ==
    ASSUME NEW a, NEW b, IsJob(a), IsJob(b), NEW P \in BOOLEAN, NEW Q \in BOOLEAN
    PROVE  LET js == (IF P THEN <<a>> ELSE <<>>) \o (IF Q THEN <<b>> ELSE <<>>)
           IN  js # <<>> => AreJobs(js)
<1>0. <<a>>[1] = a /\ <<b>>[1] = b /\ <<a, b>>[1] = a /\ <<a, b>>[2] = b
  OBVIOUS
<1>1. CASE P /\ Q
  BY <1>0, <1>1, Pairs DEF AreJobs
<1>2. CASE P /\ ~Q
  BY <1>0, <1>2, Pairs DEF AreJobs
<1>3. CASE ~P /\ Q
  BY <1>0, <1>3, Pairs DEF AreJobs
<1>4. CASE ~P /\ ~Q
  BY <1>4
<1> QED BY <1>1, <1>2, <1>3, <1>4

LEMMA ModelIsJob == ASSUME NEW t \in Types, NEW id, NEW m PROVE IsJob(SetModel(t, Model(id, m)))
BY DEF IsJob, SetModel, Field

LEMMA KeyIsJob == ASSUME NEW id, NEW k PROVE IsJob(SetKey(id, k))
BY DEF IsJob, SetKey, Field

-----------------------------------------------------------------------------
(* The steps.                                                              *)

LEMMA StorageUntouched ==
    ASSUME Storage, ~hurt => Unhurt,
           UNCHANGED <<site, data, step, config, prov, jobs, text, saved, hurt, before>>
    PROVE  Storage' /\ (~hurt' => Unhurt')
BY DEF Storage, Unhurt, Writes, Reads

\* Whoever does not write goes on without it.
LEMMA Aside ==
    ASSUME Storage, ~hurt => Unhurt, NEW l \in Loads,
           NEW to \in {"failed", "ready", "get"}, step' = [step EXCEPT ![l] = to], DOMAIN step = Loads,
           step[l] # "put", UNCHANGED <<site, data, saved, hurt, before>>,
           DOMAIN config' = Loads, DOMAIN text' = Loads,
           \A k \in Loads \ {l} : /\ config'[k] = config[k] /\ text'[k] = text[k]
                                  /\ jobs'[k] = jobs[k] /\ prov'[k] = prov[k],
           to = "get" => AreJobs(jobs'[l])
    PROVE  Storage' /\ (~hurt' => Unhurt')
<1>1. step'[l] = to /\ \A k \in Loads \ {l} : step'[k] = step[k]
  OBVIOUS
<1>2. Storage'
  BY <1>1 DEF Storage
<1>3. ASSUME ~hurt PROVE Unhurt'
  <2>1. \A k \in Loads : Writes(k)' => Writes(k) /\ k # l
    BY <1>1 DEF Writes
  <2>2. \A k \in Loads : step'[k] = "put" <=> step[k] = "put"
    BY <1>1
  <2>3. \A k \in Loads : step'[k] = "asked" => step[k] = "asked" /\ k # l
    BY <1>1
  <2>4. ASSUME NEW k \in Loads \ {l}, Reads(k) PROVE Reads(k)'
    BY <2>4 DEF Reads
  <2>5. \A j, k \in Loads : Writes(j)' /\ Writes(k)' => j = k
    BY <1>3, <2>1 DEF Unhurt
  <2>6. \A k \in Loads : Writes(k)' /\ text'[k] # Torn => Stored(Text(text'[k]), saved)
    BY <1>3, <2>1 DEF Unhurt
  <2>7. \A k \in Loads : step'[k] = "asked" => Reads(k)'
    BY <1>3, <2>3, <2>4 DEF Unhurt
  <2>8. \A k \in Loads : step'[k] = "put" => data = Bare
    BY <1>3, <2>2 DEF Unhurt
  <2>9. (\A k \in Loads : step'[k] # "put") /\ data # Torn => Stored(Text(data), saved)
    BY <1>3, <2>2 DEF Unhurt
  <2> QED BY <2>5, <2>6, <2>7, <2>8, <2>9 DEF Unhurt
<1> QED BY <1>2, <1>3

LEMMA StartStorage ==
    ASSUME Storage, ~hurt => Unhurt, DOMAIN step = Loads, NEW l \in Loads, Start(l)
    PROVE  Storage' /\ (~hurt' => Unhurt')
<1>1. /\ step[l] = "new" /\ step'[l] = "asked" /\ \A k \in Loads \ {l} : step'[k] = step[k]
      /\ config' = [config EXCEPT ![l] = Merged] /\ before' = [before EXCEPT ![l] = saved]
      /\ UNCHANGED <<site, data, prov, jobs, text, saved, hurt>> /\ data \notin Broken
  BY DEF Start, Moves
<1>2. Storage'
  BY <1>1 DEF Storage
<1>3. ASSUME ~hurt PROVE Unhurt'
  <2>1. \A k \in Loads : step[k] # "put" /\ step'[k] # "put"
    BY <1>1, <1>3 DEF Unhurt, Broken
  <2>2. data # Torn /\ Stored(Text(data), saved)
    BY <1>1, <1>3, <2>1 DEF Unhurt, Broken
  <2>3. \A k \in Loads : Writes(k)' => Writes(k) /\ k # l
    BY <1>1 DEF Writes
  <2>4. Reads(l)'
    <3>1. config'[l] = Merged /\ before'[l] = saved /\ site' = site
      BY <1>1 DEF Storage
    <3>2. ASSUME NEW x \in DOMAIN saved, Under(site.project, x) = {} PROVE Has(Merged, x, saved[x])
      <4>1. Field(x, saved[x])
        BY DEF Storage, Fields
      <4>2. Has(Text(data), x, saved[x])
        BY <2>2 DEF Stored
      <4> QED BY <3>2, <4>1, <4>2, MergedHas DEF Merged
    <3> QED BY <3>1, <3>2 DEF Reads
  <2>5. ASSUME NEW k \in Loads \ {l}, Reads(k) PROVE Reads(k)'
    BY <1>1, <2>5 DEF Reads
  <2>6. \A j, k \in Loads : Writes(j)' /\ Writes(k)' => j = k
    BY <1>3, <2>3 DEF Unhurt
  <2>7. \A k \in Loads : Writes(k)' /\ text'[k] # Torn => Stored(Text(text'[k]), saved')
    BY <1>1, <1>3, <2>3 DEF Unhurt
  <2>8. \A k \in Loads : step'[k] = "asked" => Reads(k)'
    BY <1>1, <1>3, <2>4, <2>5 DEF Unhurt
  <2> QED BY <1>1, <2>1, <2>2, <2>6, <2>7, <2>8 DEF Unhurt
<1> QED BY <1>1, <1>2, <1>3

LEMMA EarlyStorage ==
    ASSUME Storage, ~hurt => Unhurt, Shapes, NEW l \in Loads, StartFails(l) \/ Refuse(l) \/ Unconfigured(l)
    PROVE  Storage' /\ (~hurt' => Unhurt')
<1>1. /\ step' = [step EXCEPT ![l] = "failed"] \/ step' = [step EXCEPT ![l] = "ready"]
      /\ step[l] # "put" /\ UNCHANGED <<site, data, saved, hurt, before>>
  BY DEF StartFails, Refuse, Unconfigured, Moves, Found, history
<1>2. /\ DOMAIN config' = Loads /\ DOMAIN text' = Loads
      /\ \A k \in Loads \ {l} : /\ config'[k] = config[k] /\ text'[k] = text[k]
                                /\ jobs'[k] = jobs[k] /\ prov'[k] = prov[k]
  BY DEF StartFails, Refuse, Unconfigured, Moves, Found, Storage, Shapes
<1>3. DOMAIN step = Loads
  BY DEF Shapes
<1> QED BY <1>1, <1>2, <1>3, Aside

LEMMA ConfigureStorage ==
    ASSUME Storage, ~hurt => Unhurt, Shapes, NEW l \in Loads, Configure(l)
    PROVE  Storage' /\ (~hurt' => Unhurt')
<1> DEFINE ps       == configureProviders(config[l], KnownTo(l))
           defaults == defaultModelSelection(ps, KnownTo(l))
           P == Falls(config[l], ps, "large", defaults["large"])
           Q == Falls(config[l], ps, "small", defaults["small"])
           a == SetModel("large", defaults["large"])
           b == SetModel("small", defaults["small"])
           fixes == (IF P THEN <<a>> ELSE <<>>) \o (IF Q THEN <<b>> ELSE <<>>)
           to    == IF fixes = <<>> THEN "ready" ELSE "get"
<1>1. /\ step' = [step EXCEPT ![l] = to] /\ step[l] = "asked"
      /\ UNCHANGED <<site, data, text, saved, hurt, before>>
      /\ prov' = [prov EXCEPT ![l] = ps] /\ jobs' = [jobs EXCEPT ![l] = fixes]
      /\ config' = [config EXCEPT ![l] = None]
  BY DEF Configure, Moves, Found, history
<1>2. P \in BOOLEAN /\ Q \in BOOLEAN
  BY DEF Falls
<1>3. IsJob(a) /\ IsJob(b)
  <2>1. "large" \in Types /\ "small" \in Types
    BY DEF Types
  <2>2. PICK id, m : defaults["large"] = Model(id, m)
    BY <2>1, DefaultsAreModels
  <2>3. PICK i, n : defaults["small"] = Model(i, n)
    BY <2>1, DefaultsAreModels
  <2> HIDE DEF defaults
  <2> QED BY <2>1, <2>2, <2>3, ModelIsJob
<1> HIDE DEF P, Q, a, b, ps
<1>4. fixes # <<>> => AreJobs(fixes)
  BY <1>2, <1>3, FallbackJobs
<1> HIDE DEF fixes
<1>5. to \in {"failed", "ready", "get"} /\ (to = "get" => AreJobs(jobs'[l]))
  BY <1>1, <1>4 DEF Shapes
<1> HIDE DEF to
<1>6. /\ DOMAIN config' = Loads /\ DOMAIN text' = Loads /\ DOMAIN step = Loads
      /\ \A k \in Loads \ {l} : /\ config'[k] = config[k] /\ text'[k] = text[k]
                                /\ jobs'[k] = jobs[k] /\ prov'[k] = prov[k]
  BY <1>1 DEF Storage, Shapes
<1> QED BY <1>1, <1>5, <1>6, Aside

LEMMA GetStorage ==
    ASSUME Storage, ~hurt => Unhurt, Shapes, NEW l \in Loads, Get(l)
    PROVE  Storage' /\ (~hurt' => Unhurt')
<1>1. /\ step[l] = "get" /\ step'[l] = "open" /\ \A k \in Loads \ {l} : step'[k] = step[k]
      /\ text' = [text EXCEPT ![l] = data]
      /\ hurt' = (hurt \/ \E k \in Loads \ {l} : Writes(k))
      /\ UNCHANGED <<site, data, config, prov, jobs, saved, before>>
  BY DEF Get, Moves, Shapes
<1>2. Storage'
  BY <1>1 DEF Storage
<1>3. ASSUME ~hurt' PROVE Unhurt'
  <2>1. ~hurt /\ Unhurt /\ \A k \in Loads \ {l} : ~Writes(k)
    BY <1>1, <1>3
  <2>2. \A k \in Loads : Writes(k)' => k = l
    BY <1>1, <2>1 DEF Writes
  <2>3. \A k \in Loads : step[k] # "put" /\ step'[k] # "put"
    BY <1>1, <2>1 DEF Writes
  <2>4. text'[l] = data
    BY <1>1 DEF Storage
  <2>5. data # Torn => Stored(Text(data), saved)
    BY <2>1, <2>3 DEF Unhurt
  <2>6. \A j, k \in Loads : Writes(j)' /\ Writes(k)' => j = k
    BY <2>2
  <2>7. \A k \in Loads : Writes(k)' /\ text'[k] # Torn => Stored(Text(text'[k]), saved)
    BY <2>2, <2>4, <2>5
  <2>8. \A k \in Loads : step'[k] = "asked" => Reads(k)'
    BY <1>1, <2>1 DEF Unhurt, Reads
  <2> QED BY <1>1, <2>3, <2>5, <2>6, <2>7, <2>8 DEF Unhurt
<1> QED BY <1>2, <1>3

LEMMA OpenStorage ==
    ASSUME Storage, ~hurt => Unhurt, Shapes, NEW l \in Loads, OpenData(l)
    PROVE  Storage' /\ (~hurt' => Unhurt')
<1>1. /\ step[l] = "open" /\ step'[l] = "put" /\ \A k \in Loads \ {l} : step'[k] = step[k]
      /\ data' = Bare
      /\ UNCHANGED <<site, config, prov, jobs, text, saved, hurt, before>>
  BY DEF OpenData, Moves, Shapes, history
<1>2. Storage'
  BY <1>1 DEF Storage
<1>3. ASSUME ~hurt PROVE Unhurt'
  <2>1. \A k \in Loads : Writes(k)' <=> Writes(k)
    BY <1>1 DEF Writes
  <2>2. \A j, k \in Loads : Writes(j)' /\ Writes(k)' => j = k
    BY <1>3, <2>1 DEF Unhurt
  <2>3. \A k \in Loads : Writes(k)' /\ text'[k] # Torn => Stored(Text(text'[k]), saved)
    BY <1>1, <1>3, <2>1 DEF Unhurt
  <2>4. \A k \in Loads : step'[k] = "asked" => Reads(k)'
    BY <1>1, <1>3 DEF Unhurt, Reads
  <2> QED BY <1>1, <2>2, <2>3, <2>4 DEF Unhurt
<1> QED BY <1>1, <1>2, <1>3

\* What is written has what was stored before, and the new field.
LEMMA PutStorage ==
    ASSUME MarksAreNoTexts, Storage, ~hurt => Unhurt, Shapes, NEW l \in Loads, PutData(l)
    PROVE  Storage' /\ (~hurt' => Unhurt')
<1> DEFINE job  == Head(jobs[l])
           rest == Tail(jobs[l])
           to   == IF rest # <<>> THEN "get" ELSE "ready"
           new  == [x \in {job.path} \cup DOMAIN saved |-> IF x = job.path THEN job.value ELSE saved[x]]
<1>0. IsJob(job) /\ (rest # <<>> => AreJobs(rest))
  <2>1. AreJobs(jobs[l])
    BY DEF Storage, PutData, Moves
  <2> QED BY <2>1, NextJob
<1>1. /\ step[l] = "put" /\ step'[l] = to /\ \A k \in Loads \ {l} : step'[k] = step[k]
      /\ data' \in Written(data, NewText(l)) /\ saved' = new
      /\ jobs' = [jobs EXCEPT ![l] = rest] /\ text' = [text EXCEPT ![l] = None]
      /\ UNCHANGED <<site, config, hurt, before>>
  BY DEF PutData, Moves, Shapes
<1>2. \A k \in Loads \ {l} : prov'[k] = prov[k]
  BY DEF PutData, Shapes
<1>3. NewText(l) = IF text[l] = Torn THEN Torn ELSE SetAt(Text(text[l]), job.path, job.value)
  BY DEF NewText
<1>4. Field(job.path, job.value)
  BY <1>0 DEF IsJob
<1> HIDE DEF job, new
<1>5. Fields(new)
  BY <1>4 DEF Storage, Fields, new
<1>6. to \in {"get", "ready"} /\ (to = "get" => AreJobs(rest))
  BY <1>0
<1> HIDE DEF to, rest
<1>7. Storage'
  BY <1>1, <1>2, <1>5, <1>6 DEF Storage, Shapes
<1>8. ASSUME ~hurt PROVE Unhurt'
  <2>1. \A k \in Loads : Writes(k)' => Writes(k) /\ k # l
    BY <1>1, <1>6 DEF Writes
  <2>2. Writes(l)
    BY <1>1 DEF Writes
  <2>3. \A k \in Loads : ~Writes(k)'
    BY <1>8, <2>1, <2>2 DEF Unhurt
  <2>4. \A k \in Loads : step'[k] # "put"
    BY <2>3 DEF Writes
  <2>5. data' = NewText(l)
    <3>1. data = Bare
      BY <1>1, <1>8 DEF Unhurt
    <3> QED BY <1>1, <3>1 DEF Written
  <2>6. ASSUME data' # Torn PROVE Stored(Text(data'), new)
    <3>1. text[l] # Torn /\ data' = SetAt(Text(text[l]), job.path, job.value)
      BY <1>3, <2>5, <2>6
    <3>2. Stored(Text(text[l]), saved)
      BY <1>8, <2>2, <3>1 DEF Unhurt
    <3>3. Stored(SetAt(Text(text[l]), job.path, job.value), new)
      <4>1. Fields(saved)
        BY DEF Storage
      <4> DEFINE c == Text(text[l])
      <4>2. Stored(c, saved)
        BY <3>2
      <4>3. new = [x \in {job.path} \cup DOMAIN saved |-> IF x = job.path THEN job.value ELSE saved[x]]
        BY DEF new
      <4> HIDE DEF c
      <4>4. Stored(SetAt(c, job.path, job.value), new)
        BY <1>4, <4>1, <4>2, <4>3, SetOne
      <4> QED BY <4>4 DEF c
    <3>4. Text(data') = data'
      BY <3>1 DEF MarksAreNoTexts, Text, Broken
    <3> QED BY <3>1, <3>3, <3>4
  <2>7. \A k \in Loads : step'[k] = "asked" => Reads(k)'
    BY <1>1, <1>6, <1>8 DEF Unhurt, Reads
  <2> QED BY <1>1, <2>3, <2>4, <2>6, <2>7 DEF Unhurt
<1> QED BY <1>1, <1>7, <1>8

LEMMA FailStorage ==
    ASSUME Storage, ~hurt => Unhurt, Shapes, NEW l \in Loads,
           NEW from \in {"get", "open", "put"}, SetFails(l, from)
    PROVE  Storage' /\ (~hurt' => Unhurt')
<1> DEFINE to == IF loading[l] THEN "failed" ELSE "ready"
<1>1. /\ step' = [step EXCEPT ![l] = to] /\ step[l] = from
      /\ jobs' = [jobs EXCEPT ![l] = <<>>] /\ text' = [text EXCEPT ![l] = None]
      /\ UNCHANGED <<site, config, prov, saved, before>>
  BY DEF SetFails, Moves
<1>2. to \in {"failed", "ready"}
  OBVIOUS
<1> HIDE DEF to
<1>3. /\ DOMAIN config' = Loads /\ DOMAIN text' = Loads /\ DOMAIN step = Loads
      /\ \A k \in Loads \ {l} : /\ config'[k] = config[k] /\ text'[k] = text[k]
                                /\ jobs'[k] = jobs[k] /\ prov'[k] = prov[k]
  BY <1>1 DEF Storage, Shapes
<1>4. CASE from = "put"
  <2>1. hurt'
    BY <1>4 DEF SetFails
  <2>2. step'[l] = to /\ \A k \in Loads \ {l} : step'[k] = step[k]
    BY <1>1, <1>3
  <2>3. Storage'
    BY <1>1, <1>2, <1>3, <2>2 DEF Storage
  <2> QED BY <2>1, <2>3
<1>5. CASE from # "put"
  <2>1. UNCHANGED <<data, hurt>>
    BY <1>5 DEF SetFails
  <2> QED BY <1>1, <1>2, <1>3, <1>5, <2>1, Aside
<1> QED BY <1>4, <1>5

LEMMA ChangeStorage ==
    ASSUME Storage, ~hurt => Unhurt, Shapes, NEW l \in Loads, UpdatePreferredModel(l) \/ SetProviderAPIKey(l)
    PROVE  Storage' /\ (~hurt' => Unhurt')
<1>1. ASSUME NEW job, Change(l, job), IsJob(job) PROVE Storage' /\ (~hurt' => Unhurt')
  <2> DEFINE js == <<job>>
  <2>1. /\ step' = [step EXCEPT ![l] = "get"] /\ step[l] = "ready" /\ jobs' = [jobs EXCEPT ![l] = js]
        /\ UNCHANGED <<site, data, config, prov, text, saved, hurt, before>>
    BY <1>1 DEF Change, Moves
  <2>2. js = <<js[1]>> /\ js[1] = job
    OBVIOUS
  <2>3. AreJobs(js)
    BY <1>1, <2>2 DEF AreJobs
  <2> HIDE DEF js
  <2>4. /\ DOMAIN config' = Loads /\ DOMAIN text' = Loads /\ DOMAIN step = Loads /\ jobs'[l] = js
        /\ \A k \in Loads \ {l} : /\ config'[k] = config[k] /\ text'[k] = text[k]
                                  /\ jobs'[k] = jobs[k] /\ prov'[k] = prov[k]
    BY <2>1 DEF Storage, Shapes
  <2> QED BY <2>1, <2>3, <2>4, Aside
<1>2. CASE UpdatePreferredModel(l)
  <2>1. PICK t \in Types, chosen \in Preferences : Change(l, SetModel(t, Model(chosen[1], chosen[2])))
    BY <1>2 DEF UpdatePreferredModel
  <2> QED BY <1>1, <2>1, ModelIsJob
<1>3. CASE SetProviderAPIKey(l)
  <2>1. PICK id \in Entered, k \in Keys : Change(l, SetKey(id, k))
    BY <1>3 DEF SetProviderAPIKey
  <2> QED BY <1>1, <2>1, KeyIsJob
<1> QED BY <1>2, <1>3

LEMMA EndStorage ==
    ASSUME Storage, ~hurt => Unhurt, NEW p \in Procs, End(p)
    PROVE  Storage' /\ (~hurt' => Unhurt')
<1> DEFINE its == {l \in Loads : host[l] = p}
<1>1. /\ step' = [l \in Loads |-> IF l \in its THEN "dead" ELSE step[l]]
      /\ hurt' = (hurt \/ \E l \in its : step[l] = "put")
      /\ jobs' = [l \in Loads |-> IF l \in its THEN <<>> ELSE jobs[l]]
      /\ text' = [l \in Loads |-> IF l \in its THEN None ELSE text[l]]
      /\ UNCHANGED <<site, data, config, prov, saved, before>>
  BY DEF End
<1>2. its \subseteq Loads
  OBVIOUS
<1> HIDE DEF its
<1>3. /\ \A l \in its : step'[l] = "dead"
      /\ \A l \in Loads \ its : step'[l] = step[l] /\ jobs'[l] = jobs[l] /\ text'[l] = text[l]
  BY <1>1, <1>2
<1>4. Storage'
  BY <1>1, <1>3 DEF Storage
<1>5. ASSUME ~hurt' PROVE Unhurt'
  <2>1. ~hurt /\ Unhurt /\ \A l \in its : step[l] # "put"
    BY <1>1, <1>5
  <2>2. \A l \in Loads : Writes(l)' => Writes(l) /\ l \notin its
    BY <1>3 DEF Writes
  <2>3. \A l \in Loads : step'[l] = "put" <=> step[l] = "put"
    BY <1>3, <2>1
  <2>4. \A l \in Loads : step'[l] = "asked" => step[l] = "asked"
    BY <1>3
  <2>5. \A j, k \in Loads : Writes(j)' /\ Writes(k)' => j = k
    BY <2>1, <2>2 DEF Unhurt
  <2>6. \A l \in Loads : Writes(l)' /\ text'[l] # Torn => Stored(Text(text'[l]), saved)
    BY <1>3, <2>1, <2>2 DEF Unhurt
  <2>7. \A l \in Loads : step'[l] = "asked" => Reads(l)'
    BY <1>1, <2>1, <2>4 DEF Unhurt, Reads
  <2>8. \A l \in Loads : step'[l] = "put" => data = Bare
    BY <2>1, <2>3 DEF Unhurt
  <2>9. (\A l \in Loads : step'[l] # "put") /\ data # Torn => Stored(Text(data), saved)
    BY <2>1, <2>3 DEF Unhurt
  <2> QED BY <1>1, <2>5, <2>6, <2>7, <2>8, <2>9 DEF Unhurt
<1> QED BY <1>4, <1>5

LEMMA InitStorage == Init => Storage /\ Unhurt
<1> SUFFICES ASSUME Init PROVE Storage /\ Unhurt
  OBVIOUS
<1> DEFINE c == Text(data)
           made == {x \in {<<"models", t>> : t \in Types} :
                        {x \o <<"provider">>, x \o <<"model">>} \subseteq DOMAIN c}
<1>1. /\ step = [l \in Loads |-> "new"] /\ prov = [l \in Loads |-> None]
      /\ DOMAIN config = Loads /\ DOMAIN text = Loads /\ before = [l \in Loads |-> None]
      /\ saved = [x \in made |-> Model(c[x \o <<"provider">>], c[x \o <<"model">>])]
  BY DEF Init
<1> HIDE DEF c
<1>2. /\ DOMAIN saved = made
      /\ \A x \in made : saved[x] = Model(c[x \o <<"provider">>], c[x \o <<"model">>])
  BY <1>1
<1>3. \A x \in made : \E t \in Types : x = <<"models", t>>
  OBVIOUS
<1>4. \A x \in made : x \o <<"provider">> \in DOMAIN c /\ x \o <<"model">> \in DOMAIN c
  OBVIOUS
<1> HIDE DEF made
<1>5. Fields(saved)
  BY <1>2, <1>3 DEF Fields, Field
<1>6. ASSUME NEW x \in made PROVE Has(c, x, saved[x])
  <2> DEFINE i == c[x \o <<"provider">>]  m == c[x \o <<"model">>]
  <2>1. saved[x] = Model(i, m) /\ x \o <<"provider">> \in DOMAIN c /\ x \o <<"model">> \in DOMAIN c
    BY <1>2, <1>4
  <2>2. /\ DOMAIN Model(i, m) = {<<"provider">>, <<"model">>}
        /\ Model(i, m)[<<"provider">>] = i /\ Model(i, m)[<<"model">>] = m
    BY ModelMade
  <2>3. /\ DOMAIN saved[x] = {<<"provider">>, <<"model">>}
        /\ saved[x][<<"provider">>] = c[x \o <<"provider">>] /\ saved[x][<<"model">>] = c[x \o <<"model">>]
    BY <2>1, <2>2
  <2> QED BY <2>1, <2>3 DEF Has
<1>7. Stored(c, saved)
  BY <1>2, <1>6 DEF Stored
<1>8. \A l \in Loads : step[l] = "new" /\ prov[l] = None /\ before[l] = None
  BY <1>1
<1>9. Fields(None)
  BY DEF Fields, None
<1>10. Storage
  BY <1>1, <1>5, <1>8, <1>9 DEF Storage
<1>11. Unhurt
  BY <1>7, <1>8 DEF Unhurt, Writes, c
<1> QED BY <1>10, <1>11

LEMMA StorageStays ==
    ASSUME MarksAreNoTexts, Shapes, Storage, ~hurt => Unhurt, [Next]_configVars
    PROVE  Storage' /\ (~hurt' => Unhurt')
<1>0. DOMAIN step = Loads
  BY DEF Shapes
<1>1. ASSUME NEW l \in Loads, Start(l) \/ StartFails(l) \/ Refuse(l) \/ Unconfigured(l) \/ Configure(l)
      PROVE  Storage' /\ (~hurt' => Unhurt')
  BY <1>0, <1>1, StartStorage, EarlyStorage, ConfigureStorage
<1>2. ASSUME NEW l \in Loads, Get(l) \/ OpenData(l) \/ PutData(l)
      PROVE  Storage' /\ (~hurt' => Unhurt')
  BY <1>2, GetStorage, OpenStorage, PutStorage
<1>3. ASSUME NEW l \in Loads, \E from \in {"get", "open", "put"} : SetFails(l, from)
      PROVE  Storage' /\ (~hurt' => Unhurt')
  BY <1>3, FailStorage
<1>4. ASSUME NEW l \in Loads, UpdatePreferredModel(l) \/ SetProviderAPIKey(l)
      PROVE  Storage' /\ (~hurt' => Unhurt')
  BY <1>4, ChangeStorage
<1>5. ASSUME NEW p \in Procs, End(p) PROVE Storage' /\ (~hurt' => Unhurt')
  BY <1>5, EndStorage
<1>6. CASE UNCHANGED configVars \/ (ProviderStep /\ UNCHANGED settings)
  BY <1>6, StorageUntouched DEF configVars, settings
<1> QED BY <1>1, <1>2, <1>3, <1>4, <1>5, <1>6 DEF Next

\* Only when it is configured does a start that has asked get providers.
LEMMA OnlyConfigure ==
    ASSUME Shapes, Storage, [Next]_configVars, NEW l \in Loads, step[l] = "asked", prov'[l] # prov[l]
    PROVE  Configure(l)
<1>0. prov[l] = None
  BY DEF Storage
<1>1. ASSUME NEW k \in Loads, StartFails(k) \/ Start(k) \/ Get(k) \/ OpenData(k)
                              \/ (\E from \in {"get", "open", "put"} : SetFails(k, from))
                              \/ UpdatePreferredModel(k) \/ SetProviderAPIKey(k)
      PROVE  prov' = prov
  BY <1>1 DEF StartFails, Start, Get, OpenData, SetFails, UpdatePreferredModel, SetProviderAPIKey, Change
<1>2. ASSUME NEW p \in Procs, End(p) PROVE prov' = prov
  BY <1>2 DEF End
<1>3. CASE UNCHANGED configVars \/ (ProviderStep /\ UNCHANGED settings)
  BY <1>3 DEF configVars, settings
<1>4. ASSUME NEW k \in Loads, PutData(k) PROVE prov'[l] = prov[l]
  <2>1. k # l
    BY <1>4 DEF PutData, Moves
  <2> QED BY <1>4, <2>1 DEF PutData, Shapes
<1>5. ASSUME NEW k \in Loads, Refuse(k) \/ Unconfigured(k) PROVE prov'[l] = prov[l]
  <2>1. prov' = [prov EXCEPT ![k] = None]
    BY <1>5 DEF Refuse, Unconfigured, Found
  <2> QED BY <1>0, <2>1 DEF Shapes
<1>6. ASSUME NEW k \in Loads, Configure(k), k # l PROVE prov'[l] = prov[l]
  BY <1>6 DEF Configure, Found, Shapes
<1> QED BY <1>1, <1>2, <1>3, <1>4, <1>5, <1>6 DEF Next

\* A start that gets its providers uses what had been stored when it read.
LEMMA StoredIsUsed ==
    ASSUME Shapes, Storage, Unhurt, NEW l \in Loads, step[l] = "asked", Configure(l),
           NEW x \in DOMAIN before[l], Under(site.project, x) = {}
    PROVE  LET v == before[l][x] IN
           \/ /\ x[1] = "models"
              /\ GetModel(prov'[l], v) /\ (\A y \in DOMAIN v : v[y] # "") => pick'[l][x[2]] = v
           \/ /\ x[1] = "providers"
              /\ v[<<>>] # "" /\ x[2] \in DOMAIN prov'[l] => prov'[l][x[2]].key = v[<<>>]
<1> DEFINE c == config[l]  known == KnownTo(l)  ps == configureProviders(c, known)  v == before[l][x]
<1>1. prov'[l] = ps /\ pick'[l] = configureSelectedModels(c, ps, defaultModelSelection(ps, known))
  BY DEF Configure, Found, Shapes
<1>2. Field(x, v) /\ Has(c, x, v)
  BY DEF Storage, Unhurt, Reads, Fields
<1> HIDE DEF c, known, ps, v
<1>3. ASSUME NEW t \in Types, NEW id, NEW m, x = <<"models", t>>, v = Model(id, m),
             GetModel(ps, v), \A y \in DOMAIN v : v[y] # ""
      PROVE  pick'[l][t] = v
  <2>1. Has(c, <<"models", t>>, Model(id, m)) /\ GetModel(ps, Model(id, m)) /\ AllNamed(Model(id, m))
    BY <1>2, <1>3 DEF AllNamed
  <2>2. configureSelectedModels(c, ps, defaultModelSelection(ps, known))[t] = Model(id, m)
    BY <2>1, ModelUsed
  <2> QED BY <1>1, <1>3, <2>2
<1>4. ASSUME NEW id, NEW k, x = <<"providers", id, "api_key">>, v = [y \in {<<>>} |-> k],
             v[<<>>] # "", id \in DOMAIN ps
      PROVE  ps[id].key = v[<<>>]
  <2>1. Has(c, <<"providers", id, "api_key">>, [y \in {<<>>} |-> k]) /\ v[<<>>] = k
    BY <1>2, <1>4
  <2> QED BY <1>4, <2>1, KeyUsed DEF ps
<1>5. CASE \E t \in Types : \E id, m : x = <<"models", t>> /\ v = Model(id, m)
  <2>1. PICK t \in Types : \E id, m : x = <<"models", t>> /\ v = Model(id, m)
    BY <1>5
  <2>2. x[1] = "models" /\ x[2] = t
    BY <2>1
  <2>3. GetModel(ps, v) /\ (\A y \in DOMAIN v : v[y] # "") => pick'[l][t] = v
    BY <1>3, <2>1
  <2> QED BY <1>1, <2>2, <2>3 DEF v
<1>6. CASE \E id, k : x = <<"providers", id, "api_key">> /\ v = [y \in {<<>>} |-> k]
  <2>1. PICK id : \E k : x = <<"providers", id, "api_key">> /\ v = [y \in {<<>>} |-> k]
    BY <1>6
  <2>2. x[1] = "providers" /\ x[2] = id
    BY <2>1
  <2>3. v[<<>>] # "" /\ id \in DOMAIN ps => ps[id].key = v[<<>>]
    BY <1>4, <2>1
  <2> QED BY <1>1, <2>2, <2>3 DEF v
<1> QED BY <1>2, <1>5, <1>6 DEF Field

\* What was stored is what the next start selects, a model or a key that is not
\* empty, as long as no writer disturbed another or did not finish.
THEOREM ChangesAreKept == MarksAreNoTexts /\ Spec => ChangesSurvive
<1> SUFFICES ASSUME MarksAreNoTexts PROVE Spec => ChangesSurvive
  OBVIOUS
<1> DEFINE Safe == Storage /\ (~hurt => Unhurt)
           Step == \A l \in Loads : step[l] = "asked" /\ prov'[l] # prov[l] /\ ~hurt =>
                     \A x \in DOMAIN before[l] : Under(site.project, x) = {} =>
                         LET v == before[l][x] IN
                         \/ /\ x[1] = "models"
                            /\ GetModel(prov'[l], v) /\ (\A y \in DOMAIN v : v[y] # "") => pick'[l][x[2]] = v
                         \/ /\ x[1] = "providers"
                            /\ v[<<>>] # "" /\ x[2] \in DOMAIN prov'[l] => prov'[l][x[2]].key = v[<<>>]
<1>1. Init => Safe
  BY InitStorage
<1>2. Chosen /\ Safe /\ [Next]_configVars => Safe'
  BY StorageStays DEF Chosen
<1>3. Chosen /\ Safe /\ [Next]_configVars => Step
  BY OnlyConfigure, StoredIsUsed DEF Chosen
<1> QED BY <1>1, <1>2, <1>3, AlwaysChosen, PTL DEF Spec, ChangesSurvive
=============================================================================
