---------------------------- MODULE ProviderCache ----------------------------
(***************************************************************************)
(* The list of providers (config/provider.go): a process asks the          *)
(* catalogue for it once and keeps it in memory; a file keeps it for the   *)
(* processes after it.  A file younger than a day is used at once and      *)
(* brought up to date in the background; otherwise it is what is left when *)
(* the catalogue does not answer.  Processes share the file and nothing    *)
(* else, and os.WriteFile truncates it before it writes.                   *)
(***************************************************************************)
CONSTANTS Loads,     \* the calls of Providers
          Procs,     \* the processes that make them
          Hosts,     \* which process makes which: functions from Loads to Procs
          Lists,     \* the lists of providers the catalogue has had
          NoList,    \* the empty list
          NoFile,    \* there is no file,
          Bare,      \* a file without content,
          Torn,      \* and one whose content does not parse
          NoLoad

ASSUME CacheAssumption ==
    /\ Hosts \subseteq [Loads -> Procs]
    /\ NoList \notin Lists /\ NoLoad \notin Loads
    /\ {NoFile, Bare, Torn} \cap (Lists \cup {NoList}) = {}

VARIABLES
    host,       \* the process of each load
    catalogue,  \* the list the catalogue has now
    cache,      \* the file,
    fresh,      \* and whether it is younger than a day
    once,       \* providerOnce, and where the call that it lets through is,
    leader,     \* whose call that is,
    existed,    \* whether it saw a file,
    got,        \* and the list it has got
    list,       \* providerList
    asked,      \* what Providers returns to each load
    bg,         \* the goroutine that updates the file,
    bgList      \* and the list it has got

answers   == <<once, leader, existed, got, list, asked>>
files     == <<cache, fresh>>
others    == <<bg, bgList>>
cacheVars == <<host, catalogue, files, answers, others>>

AnyList == Lists \cup {NoList}

CacheInit ==
    /\ host \in Hosts
    /\ catalogue \in Lists
    /\ cache \in AnyList \cup {NoFile}
    /\ fresh \in BOOLEAN
    /\ once    = [p \in Procs |-> "new"]
    /\ leader  = [p \in Procs |-> NoLoad]
    /\ existed = [p \in Procs |-> FALSE]
    /\ got     = [p \in Procs |-> NoList]
    /\ list    = [p \in Procs |-> NoList]
    /\ asked   = [l \in Loads |-> "no"]
    /\ bg      = [p \in Procs |-> "none"]
    /\ bgList  = [p \in Procs |-> NoList]

-----------------------------------------------------------------------------
(* os.WriteFile: what was opened twice may end with the tail of the longer *)
(* of the two texts.                                                       *)

Written(old, new) == IF old = Bare THEN {new} ELSE {new, Torn}

Truncate == cache' = Bare /\ fresh' = TRUE
Save(v)  == cache' \in Written(cache, v) /\ fresh' = TRUE
Cut      == cache' \in {Bare, Torn} /\ fresh' = TRUE

At(p, from, to) == once[p] = from /\ once' = [once EXCEPT ![p] = to]

\* The first call of Providers runs loadProviders, the others wait for it.
Ask(l) ==
    LET p == host[l] IN
    /\ asked[l] = "no" /\ once[p] # "dead"
    /\ asked' = [asked EXCEPT ![l] = "waiting"]
    /\ IF once[p] = "new"
       THEN once' = [once EXCEPT ![p] = "stat"] /\ leader' = [leader EXCEPT ![p] = l]
       ELSE UNCHANGED <<once, leader>>
    /\ UNCHANGED <<host, catalogue, files, existed, got, list, others>>

\* Whoever did not run loadProviders has no error, whatever came of it.
Follow(l) ==
    /\ asked[l] = "waiting" /\ once[host[l]] = "done" /\ leader[host[l]] # l
    /\ asked' = [asked EXCEPT ![l] = "ok"]
    /\ UNCHANGED <<host, catalogue, files, once, leader, existed, got, list, others>>

\* loadProviders returns: its list is kept even when there is an error.
Return(p, from, v, answer) ==
    /\ At(p, from, "done")
    /\ list'  = [list EXCEPT ![p] = v]
    /\ asked' = [asked EXCEPT ![leader[p]] = answer]
    /\ UNCHANGED <<host, catalogue, leader, existed, got>>

Goes(p, from, to) == At(p, from, to) /\ UNCHANGED <<host, catalogue, leader, list, asked, others>>

\* isCacheStale: whether there is a file, and whether it is of today.
Stat(p) ==
    /\ Goes(p, "stat", IF cache # NoFile /\ fresh THEN "read" ELSE "fetch")
    /\ existed' = [existed EXCEPT ![p] = cache # NoFile]
    /\ UNCHANGED <<files, got>>

\* A fresh file with a list is enough; a goroutine brings it up to date.
ReadCache(p) ==
    /\ cache \in Lists
    /\ Return(p, "read", cache, "ok")
    /\ bg' = [bg EXCEPT ![p] = "fetch"]
    /\ UNCHANGED <<files, bgList>>

ReadNothing(p) ==
    /\ cache \notin Lists
    /\ Goes(p, "read", "fetch")
    /\ UNCHANGED <<files, existed, got>>

\* The catalogue answers with its list,
Fetch(p) ==
    /\ Goes(p, "fetch", "open")
    /\ got' = [got EXCEPT ![p] = catalogue]
    /\ UNCHANGED <<files, existed>>

\* Variant: a file that is stale is no help.
FetchFailsForGood(p) ==
    /\ Return(p, "fetch", NoList, "error")
    /\ UNCHANGED <<files, others>>

\* or it does not, or with an empty one: then the file has to do, if there was one.
FetchFails(p) ==
    /\ IF existed[p] THEN Goes(p, "fetch", "again") /\ UNCHANGED <<existed, got>>
       ELSE Return(p, "fetch", NoList, "error") /\ UNCHANGED others
    /\ UNCHANGED files

\* The list is saved.
Open(p) ==
    /\ Goes(p, "open", "put")
    /\ Truncate
    /\ UNCHANGED <<existed, got>>

Put(p) ==
    /\ Return(p, "put", got[p], "ok")
    /\ Save(got[p])
    /\ UNCHANGED others

\* One that cannot be saved is returned with the error.
OpenFails(p) == Return(p, "open", got[p], "error") /\ UNCHANGED <<files, others>>
PutFails(p)  == Return(p, "put", got[p], "error") /\ Cut /\ UNCHANGED others

\* The old file, whatever its age.
ReadAgain(p) ==
    /\ IF cache \in AnyList THEN Return(p, "again", cache, "ok")
       ELSE Return(p, "again", NoList, "error")
    /\ UNCHANGED <<files, others>>

-----------------------------------------------------------------------------
(* The goroutine in the background: nobody waits for it.                   *)

Bg(p, from, to) ==
    /\ bg[p] = from /\ bg' = [bg EXCEPT ![p] = to]
    /\ UNCHANGED <<host, catalogue, answers>>

BgFetch(p) ==
    /\ Bg(p, "fetch", "open")
    /\ bgList' = [bgList EXCEPT ![p] = catalogue]
    /\ UNCHANGED files

BgFetchFails(p) == Bg(p, "fetch", "none") /\ UNCHANGED <<files, bgList>>
BgOpen(p)       == Bg(p, "open", "put") /\ Truncate /\ UNCHANGED bgList
BgOpenFails(p)  == Bg(p, "open", "none") /\ UNCHANGED <<files, bgList>>
BgPut(p)        == Bg(p, "put", "none") /\ Save(bgList[p]) /\ UNCHANGED bgList
BgPutFails(p)   == Bg(p, "put", "none") /\ Cut /\ UNCHANGED bgList

\* The process ends, with whatever its goroutines were doing.
Die(p) ==
    /\ once[p] # "dead"
    /\ once' = [once EXCEPT ![p] = "dead"]
    /\ bg'   = [bg EXCEPT ![p] = "none"]
    /\ UNCHANGED <<host, catalogue, files, leader, existed, got, list, asked, bgList>>

\* A day goes by; the catalogue gets another list.
Expire == fresh /\ fresh' = FALSE /\ UNCHANGED <<host, catalogue, cache, answers, others>>

Release ==
    /\ catalogue' \in Lists \ {catalogue}
    /\ UNCHANGED <<host, files, answers, others>>

ProviderStep ==
    \/ \E l \in Loads : Follow(l)
    \/ \E p \in Procs :
          \/ Stat(p) \/ ReadCache(p) \/ ReadNothing(p) \/ Fetch(p) \/ FetchFails(p)
          \/ Open(p) \/ OpenFails(p) \/ Put(p) \/ PutFails(p) \/ ReadAgain(p)
          \/ BgFetch(p) \/ BgFetchFails(p) \/ BgOpen(p) \/ BgOpenFails(p) \/ BgPut(p) \/ BgPutFails(p)
    \/ Expire \/ Release

-----------------------------------------------------------------------------
(* What must hold.                                                         *)

\* A process is told that there are no providers only when the file it could
\* fall back on is of no use at that time, or was not there when it looked, or
\* when the list the catalogue gave it could not be saved
\* (provider.go:96-127): without a network, the file of any age will do.
StartsWithoutNetwork ==
    [][\A l \in Loads : LET p == host[l] IN
         asked'[l] = "error" /\ asked[l] # "error" =>
             cache \notin AnyList \/ ~existed[p] \/ once[p] \in {"open", "put"}]_cacheVars
=============================================================================
