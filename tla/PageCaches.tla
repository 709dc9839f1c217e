----------------------------- MODULE PageCaches ------------------------------
(* The two caches of provider responses that a replay reads again: the news of *)
(* a ticker and day (trainer/news_cache.py), fetched by the threads of one or  *)
(* several processes, and the price and news pages of trainer/                 *)
(* historical_cache.py, fetched by one thread at a time.  A file is stored     *)
(* with the request it answers.  The news file is linked into place, so it is  *)
(* never replaced; a historical file is replaced, and only on force_refresh.   *)
EXTENDS Integers, FiniteSets

CONSTANTS
    Callers,        \* threads of any process
    Requests,       \* what is asked under one file name: the lookback may change
    Pages,          \* responses the provider may give
    MaxGets         \* bound: calls of get() and fetch()

ASSUME RequestAssumption == "NONE" \notin Requests

VARIABLES
    newsFile,       \* [request, pages], or NoPages
    priceFile,      \* the same for one request of the historical cache
    caller,         \* per thread: the call it is in
    servedNews,     \* history: the pages returned, per request
    servedPrices,   \* history: the pages returned since the last forced refresh
    gets
pageVars == <<newsFile, priceFile, caller, servedNews, servedPrices, gets>>

-----------------------------------------------------------------------------
NoPages == [request |-> "NONE", pages |-> "NONE"]
File(request, pages) == [request |-> request, pages |-> pages]

\* lookup: about to test path.exists(); asked: in the provider; store: the payload
\* is valid; read: the file is there
NoGet == [stage |-> "idle", of |-> "news", request |-> "NONE", pages |-> "NONE",
          force |-> FALSE, context |-> "NONE"]

PageInit ==
    /\ newsFile = NoPages /\ priceFile = NoPages
    /\ caller = [c \in Callers |-> NoGet]
    /\ servedNews = [r \in Requests |-> {}] /\ servedPrices = {}
    /\ gets = 0

\* only one thread works on a day's prices: a ticker is claimed from a queue
PriceCallers == {c \in Callers : caller[c].stage # "idle" /\ caller[c].of = "prices"}

StartGet(c, of, request, force) ==
    /\ caller[c].stage = "idle" /\ gets < MaxGets
    /\ of = "prices" => PriceCallers = {}
    /\ of = "news" => ~force
    /\ caller' = [caller EXCEPT ![c] = [NoGet EXCEPT !.stage = "lookup", !.of = of,
                      !.request = request, !.force = force]]
    /\ gets' = gets + 1
    /\ UNCHANGED <<newsFile, priceFile, servedNews, servedPrices>>

FileOf(c) == IF caller[c].of = "news" THEN newsFile ELSE priceFile

\* path.exists(), and not force_refresh
LookUp(c) ==
    /\ caller[c].stage = "lookup"
    /\ caller' = [caller EXCEPT ![c].stage =
           IF FileOf(c) # NoPages /\ ~caller[c].force THEN "read" ELSE "asked"]
    /\ UNCHANGED <<newsFile, priceFile, servedNews, servedPrices, gets>>

\* the provider's pages, deduplicated, which pass the checks before the store
Respond(c, pages) ==
    /\ caller[c].stage = "asked"
    /\ caller' = [caller EXCEPT ![c].stage = "store", ![c].pages = pages]
    /\ UNCHANGED <<newsFile, priceFile, servedNews, servedPrices, gets>>

\* an error of the provider, or pages that do not pass: nothing is stored, and the
\* ticker's three news metrics, or the ticker, are missing
RespondBadly(c) ==
    /\ caller[c].stage = "asked"
    /\ caller' = [caller EXCEPT ![c] = [NoGet EXCEPT !.context = "MISSING"]]
    /\ UNCHANGED <<newsFile, priceFile, servedNews, servedPrices, gets>>

\* mutant: the link replaces what is there
LinkOver(c) ==
    /\ caller[c].stage = "store" /\ caller[c].of = "news"
    /\ newsFile' = File(caller[c].request, caller[c].pages)
    /\ caller' = [caller EXCEPT ![c].stage = "read"]
    /\ UNCHANGED <<priceFile, servedNews, servedPrices, gets>>

\* os.link(): the first file stays, and whoever comes later reads that one
Link(c) ==
    /\ caller[c].stage = "store" /\ caller[c].of = "news"
    /\ newsFile' = IF newsFile = NoPages THEN File(caller[c].request, caller[c].pages)
                                          ELSE newsFile
    /\ caller' = [caller EXCEPT ![c].stage = "read"]
    /\ UNCHANGED <<priceFile, servedNews, servedPrices, gets>>

\* temporary_path.replace(path)
ReplacePrices(c) ==
    /\ caller[c].stage = "store" /\ caller[c].of = "prices"
    /\ priceFile' = File(caller[c].request, caller[c].pages)
    /\ servedPrices' = {}
    /\ caller' = [caller EXCEPT ![c].stage = "read"]
    /\ UNCHANGED <<newsFile, servedNews, gets>>

\* mutant: the stored request is not compared
ReadAnyway(c) == TRUE

\* load() and records(): the request stored with the file must be the one asked
RequestMatches(c) == FileOf(c).request = caller[c].request

\* the file is read again and given back
ReadPages(c) ==
    /\ caller[c].stage = "read" /\ RequestMatches(c)
    /\ IF caller[c].of = "news"
       THEN /\ servedNews' = [servedNews EXCEPT ![caller[c].request] = @ \cup {newsFile}]
            /\ UNCHANGED servedPrices
       ELSE servedPrices' = servedPrices \cup {priceFile} /\ UNCHANGED servedNews
    /\ caller' = [caller EXCEPT ![c] = [NoGet EXCEPT !.context = "AVAILABLE"]]
    /\ UNCHANGED <<newsFile, priceFile, gets>>

ReadRefused(c) ==
    /\ caller[c].stage = "read" /\ ~RequestMatches(c)
    /\ caller' = [caller EXCEPT ![c] = [NoGet EXCEPT !.context = "MISSING"]]
    /\ UNCHANGED <<newsFile, priceFile, servedNews, servedPrices, gets>>

\* the thread's process stops: its temporary file has a name of its own, or is
\* overwritten by the next fetch
CallerStops(c) ==
    /\ caller[c].stage # "idle"
    /\ caller' = [caller EXCEPT ![c] = NoGet]
    /\ UNCHANGED <<newsFile, priceFile, servedNews, servedPrices, gets>>

PageNext ==
    \E c \in Callers :
        \/ \E of \in {"news", "prices"}, request \in Requests, force \in BOOLEAN :
               StartGet(c, of, request, force)
        \/ LookUp(c) \/ (\E pages \in Pages : Respond(c, pages)) \/ RespondBadly(c)
        \/ Link(c) \/ ReplacePrices(c) \/ ReadPages(c) \/ ReadRefused(c) \/ CallerStops(c)

PageSpec == PageInit /\ [][PageNext]_pageVars

-----------------------------------------------------------------------------
(* Properties.                                                                 *)

\* The type invariant.
PageTypeOK ==
    /\ {newsFile, priceFile} \subseteq [request: Requests, pages: Pages] \cup {NoPages}
    /\ caller \in [Callers ->
           [stage: {"idle", "lookup", "asked", "store", "read"}, of: {"news", "prices"},
            request: Requests \cup {"NONE"}, pages: Pages \cup {"NONE"}, force: BOOLEAN,
            context: {"NONE", "AVAILABLE", "MISSING"}]]
    /\ servedNews \in [Requests -> SUBSET [request: Requests, pages: Pages]]
    /\ servedPrices \in SUBSET [request: Requests, pages: Pages]
    /\ gets \in Nat

\* Everyone who is given the news of a ticker and day is given the same pages, of
\* the window that was asked for, whoever raced to fetch them and whatever the
\* provider would say by now (news_cache.py:50, "Never replace a successful cached
\* query"); so are the readers of a price file between two forced refreshes.
PagesNeverChange ==
    /\ \A r, s \in Requests : servedNews[r] # {} /\ servedNews[s] # {} =>
           r = s /\ servedNews[r] = {newsFile} /\ newsFile.request = r
    /\ Cardinality(servedPrices) <= 1
=============================================================================
